---- MODULE Spec2Model ----
(***************************************************************************)
(* Model of the analysis pipeline of nex-intel:                            *)
(*   - the Run Orchestrator   (src/app/api/runs/orchestrator.ts)           *)
(*   - the Task Scheduler     (src/unnamed/part_004)                       *)
(*   - the Feature Definition Registry (src/unnamed/part_007)              *)
(* Each component has its own specification (SpecOrch, SpecSched,          *)
(* SpecFeat); a component's actions leave the other components' variables  *)
(* unchanged.                                                              *)
(***************************************************************************)
EXTENDS Integers, Sequences, FiniteSets, Bags, TLC

VARIABLES
    \* ---- Run Orchestrator: one invocation orchestrateRun(runId) ----
    o_pc,          \* position of the invocation inside orchestrateRun
    runRow,        \* the persisted Run row addressed by runId, or NoRun
    entryRow,      \* the Run row as it was when orchestrateRun was called
    statusWrites,  \* the status values written to the Run by setStatus, in order
    o_err,         \* message of the exception caught by the top-level catch
    o_thrown,      \* message of the exception delivered to the caller
    calls,         \* collaborator calls made: search, fetch, ai
    extracted,     \* iterations of the extraction loop: all (n), those whose AI
                   \* attempt completed (ai), those that ran the regex path
    rows,          \* rows created for the run, by entity
    sources,       \* status of each persisted Source of the run, in order
    o_cfg,         \* inputs of the invocation: queries, AI configured, prior run
    o_i,           \* loop index of the current for-loop (queries / sources / fetched)
    fetched,       \* number of sources whose fetch succeeded
    queued,        \* capWrites / featureCandidates queued by the extraction loop
    guardIssues    \* the issue list runGuardrails returned (as a set)

VARIABLES
    \* ---- Task Scheduler: the TaskScheduler singleton and its process loops ----
    tasks,         \* this.tasks: the queue, a sequence of [id, scheduledFor]
    isRunning,     \* this.isRunning
    loops,         \* the live invocations of process(), a bag (an invocation has
                   \* no identity): pc, the locals readyTasks and i,
                   \* the batch of executeTask calls awaited, and whether a
                   \* handler of this pass raised inside executeTask
    now,           \* the clock (new Date())
    nextId,        \* ids handed out by schedule so far, plus one
    dispatched,    \* per task id, the number of times it was passed to executeTask
    finished,      \* ids whose executeTask call has settled
    cancelled      \* ids for which cancel returned true

VARIABLES
    \* ---- Feature Definition Registry: concurrent ensureFeatureDefinitions calls ----
    defs,          \* the FeatureDefinition table: records id, name, normalized, aliases
    f_proc,        \* per caller: pc, normalizedEntries, byNormalized, aliasUpdates
    nextDefId,     \* ids handed out by featureDefinition.create so far, plus one
    f_call         \* calls made one after the other by a single caller: their
                   \* number, the names of the latest, the table when it began,
                   \* and whether it repeats the names of the call before it

VARIABLES
    \* ---- orchestrateRun: the feature candidates of one run and their rows ----
    featureCandidates,  \* featureCandidates: records name, normalized, competitorId
    featureRows,        \* the Feature rows of the run
    featureTx           \* the persistence transaction: "pending", "committed",
                        \* "rejected"

x_vars == <<featureCandidates, featureRows, featureTx>>

VARIABLES
    \* ---- orchestrateRun, discovery: the loop over the search queries ----
    relevanceTokens,  \* whether the relevanceTokens set is "empty" or "nonempty"
    seen,             \* the seen set of normalized urls
    discovered,       \* the discovered list (its urls)
    d_pc,             \* position in the loop
    d_n,              \* queries started so far
    d_q,              \* the query in progress: results read so far, fallback,
                      \* relevant, selectedResults, and seen when it began
    sourceRows        \* the urls of the Source rows of the run

d_vars == <<relevanceTokens, seen, discovered, d_pc, d_n, d_q, sourceRows>>

VARIABLES
    \* ---- orchestrateRun, synthesis: the pricing insight ----
    allPricing,       \* the PricingPoint rows of the run: the decimal literal the
                      \* price was parsed from, in hundredths, whether
                      \* priceMonthly is a number, and the double it is
    pricingFindings,  \* the findings the pricing block pushed
    p_pc              \* "extraction" while rows are written, then "synthesized"

p_vars == <<allPricing, pricingFindings, p_pc>>

VARIABLES
    \* ---- TaskScheduler.handleAutoRerun ----
    runs,       \* the Run rows, in order of creation: projectId, createdAt (a
                \* day), status, who created the row, whether a credit was
                \* consumed for it, whether orchestrateRun was called on it
    credit,     \* the user's credit ledger row: used, limit
    handlers,   \* the handleAutoRerun calls of a batch: the await each is
                \* suspended in, its task's projectId, the row it created
    day,        \* Date.now(), in days
    invoked     \* number of handleAutoRerun calls made so far

r_vars == <<runs, credit, handlers, day, invoked>>

VARIABLES
    \* ---- orchestrateRun: capability dedup and the capability findings ----
    capWrites,    \* the capabilities extraction collected: category, normalized
    capRows,      \* the Capability rows of the run
    capFindings,  \* the COMMON_FEATURE and DIFFERENTIATOR findings pushed
    c_pc          \* "extraction", "persisted", "synthesized"

c_vars == <<capWrites, capRows, capFindings, c_pc>>

f_vars == <<defs, f_proc, nextDefId, f_call>>

s_vars == <<tasks, isRunning, loops, now, nextId, dispatched, finished,
            cancelled>>

o_vars == <<o_pc, runRow, entryRow, statusWrites, o_err, o_thrown, calls, rows,
            sources, o_cfg, o_i, fetched, queued, guardIssues, extracted>>

vars == <<o_vars, s_vars, f_vars, x_vars, d_vars, p_vars, r_vars, c_vars>>

\* what the actions of one component leave unchanged
o_others == <<s_vars, f_vars, x_vars, d_vars, p_vars, r_vars, c_vars>>
s_others == <<o_vars, f_vars, x_vars, d_vars, p_vars, r_vars, c_vars>>
f_others == <<o_vars, s_vars, x_vars, d_vars, p_vars, r_vars, c_vars>>
x_others == <<o_vars, s_vars, f_vars, d_vars, p_vars, r_vars, c_vars>>
d_others == <<o_vars, s_vars, f_vars, x_vars, p_vars, r_vars, c_vars>>
p_others == <<o_vars, s_vars, f_vars, x_vars, d_vars, r_vars, c_vars>>
r_others == <<o_vars, s_vars, f_vars, x_vars, d_vars, p_vars, c_vars>>
c_others == <<o_vars, s_vars, f_vars, x_vars, d_vars, p_vars, r_vars>>

-----------------------------------------------------------------------------
(* Bounds of the model *)
MaxQueries == 2
MaxSources == 2
MaxTasks == 4
MaxLoops == 2
MaxTime == 1
MaxNames == 2
MaxCalls == 3
MaxCandidates == 3
MaxResults == 4
MaxPricing == 3
MaxReruns == 3
MaxProjects == 2
MaxDay == 8
MaxCredits == 2
MaxCapWrites == 5
MaxFairTasks == 3
MaxFairLoops == 1

-----------------------------------------------------------------------------
(* Run Orchestrator *)

NoRun == [exists |-> FALSE]

RunStatus == {"NEW", "DISCOVERING", "EXTRACTING", "SYNTHESIZING", "QA",
              "COMPLETE", "ERROR", "SKIPPED"}

\* statuses a Run row can carry when orchestrateRun is called on it: created by
\* the API (NEW), created by the scheduler (PENDING), or set aside (SKIPPED)
EntryStatuses == {"NEW", "PENDING", "SKIPPED"}

NoNote == [kind |-> "none", msg |-> "none"]

MkRun(st) == [exists |-> TRUE, status |-> st, lastNote |-> NoNote,
              startedAt |-> "null", completedAt |-> "null"]

\* messages of the exceptions the pipeline can raise
ErrRunNotFound    == "Run not found"
ErrRecordMissing  == "Record to update not found"
ErrStatusUpdate   == "run.update failed"
ErrGuardrails     == "runGuardrails read failed"

ZeroCalls == [search |-> 0, fetch |-> 0, ai |-> 0]
ZeroRows  == [source |-> 0, competitor |-> 0, capability |-> 0, feature |-> 0,
              finding |-> 0, uncited |-> 0, stale |-> 0, report |-> 0]

\* the status each setStatus call site of orchestrateRun writes
StatusAtMisordered(site) ==
    CASE site = "discovering"   -> "DISCOVERING"
      [] site = "extracting1"   -> "EXTRACTING"
      [] site = "extracting2"   -> "EXTRACTING"
      [] site = "synthesizing1" -> "SYNTHESIZING"
      [] site = "synthesizing2" -> "QA"
      [] site = "qa1"           -> "SYNTHESIZING"
      [] site = "qa2"           -> "QA"
      [] site = "complete"      -> "COMPLETE"

StatusAt(site) ==
    CASE site = "discovering"   -> "DISCOVERING"
      [] site = "extracting1"   -> "EXTRACTING"
      [] site = "extracting2"   -> "EXTRACTING"
      [] site = "synthesizing1" -> "SYNTHESIZING"
      [] site = "synthesizing2" -> "SYNTHESIZING"
      [] site = "qa1"           -> "QA"
      [] site = "qa2"           -> "QA"
      [] site = "complete"      -> "COMPLETE"

\* the step that follows each setStatus call site
AfterStatus(site) ==
    CASE site = "discovering"   -> "settings"
      [] site = "extracting1"   -> "fetch"
      [] site = "extracting2"   -> "prepExtract"
      [] site = "synthesizing1" -> "synthesize"
      [] site = "synthesizing2" -> "report"
      [] site = "qa1"           -> "changeDetection"
      [] site = "qa2"           -> "guardrails"
      [] site = "complete"      -> "notify"

StatusSites == {"discovering", "extracting1", "extracting2", "synthesizing1",
                "synthesizing2", "qa1", "qa2", "complete"}

\* setStatus: the data object handed to prisma.run.update
setStatus(row, status, note, startedAtTs) ==
    [row EXCEPT !.status = status,
                !.lastNote = note,
                !.startedAt = IF status = "DISCOVERING" /\ startedAtTs
                              THEN "startedAtTs" ELSE @,
                !.completedAt = IF status \in {"COMPLETE", "ERROR", "SKIPPED"}
                                THEN "now" ELSE @]

\* appendLog: runLog.create; if that fails run.update of lastNote; if that
\* fails too the error is swallowed.  The set of rows it can leave behind.
appendLog(row, line) ==
    IF row.exists THEN {row, [row EXCEPT !.lastNote = line]} ELSE {row}

Note(kind, msg) == [kind |-> kind, msg |-> msg]

\* an uncaught exception inside the try block: control moves to the catch
Raise(msg) ==
    /\ o_err' = msg
    /\ o_pc' = "catch"

IsSkippedNever(row) == FALSE

IsSkipped(row) == row.status = "SKIPPED"

\* 0) findUnique, 'run not found', the SKIPPED short-circuit
LoadRun ==
    /\ UNCHANGED o_others
    /\ UNCHANGED extracted
    /\ o_pc = "start"
    /\ UNCHANGED <<runRow, entryRow, statusWrites, o_thrown, calls, rows,
                   sources, o_cfg, o_i, fetched, queued, guardIssues>>
    /\ \/ Raise("run.findUnique failed")
       \/ /\ ~runRow.exists
          /\ Raise(ErrRunNotFound)
       \/ /\ runRow.exists
          /\ IsSkipped(runRow)
          /\ o_pc' = "returned"
          /\ UNCHANGED o_err
       \/ /\ runRow.exists
          /\ ~IsSkipped(runRow)
          /\ o_pc' = "discovering"
          /\ UNCHANGED o_err

\* control is at a setStatus call site: directly, or by leaving the for-loop
\* that precedes it
AtSite(site) ==
    CASE site = "extracting2"   -> o_pc = "fetch" /\ o_i = Len(sources)
      [] OTHER                  -> o_pc = site

\* every `await setStatus(runId, <status>, <note>)` of the try block
SetStatusStep(site) ==
    /\ UNCHANGED o_others
    /\ UNCHANGED extracted
    /\ AtSite(site)
    /\ UNCHANGED <<entryRow, o_thrown, calls, rows, sources, o_cfg, o_i,
                   fetched, queued, guardIssues>>
    /\ \/ /\ runRow' = setStatus(runRow, StatusAt(site), Note("progress", site),
                                 site = "discovering")
          /\ statusWrites' = Append(statusWrites, StatusAt(site))
          /\ o_pc' = AfterStatus(site)
          /\ UNCHANGED o_err
       \/ /\ Raise(ErrStatusUpdate)
          /\ UNCHANGED <<runRow, statusWrites>>

\* loadSettings, seeding of declared competitors (errors ignored), makeSearch
LoadSettings ==
    /\ UNCHANGED o_others
    /\ UNCHANGED extracted
    /\ o_pc = "settings"
    /\ UNCHANGED <<runRow, entryRow, statusWrites, o_thrown, calls, sources,
                   o_cfg, fetched, queued, guardIssues>>
    /\ \/ /\ \E seeded \in 0..1 :
                rows' = [rows EXCEPT !.competitor = @ + seeded]
          /\ o_i' = 0
          /\ o_pc' = "search"
          /\ UNCHANGED o_err
       \/ /\ Raise("loadSettings failed")
          /\ UNCHANGED <<rows, o_i>>

\* 1) discovery: one iteration of `for (const q of queries)`; a search error is
\* caught per query.  `sources` holds the discovered list until it is persisted.
SearchQuery ==
    /\ UNCHANGED o_others
    /\ UNCHANGED extracted
    /\ o_pc = "search"
    /\ o_i < o_cfg.queries
    /\ calls' = [calls EXCEPT !.search = @ + 1]
    /\ o_i' = o_i + 1
    /\ UNCHANGED <<entryRow, statusWrites, o_err, o_thrown, o_cfg, o_pc,
                   fetched, queued, guardIssues>>
    /\ \/ \E k \in 0..(MaxSources - Len(sources)), stale \in BOOLEAN :
             /\ sources' = sources \o [j \in 1..k |-> "DISCOVERED"]
             /\ IF stale /\ k > 0
                THEN /\ runRow' \in appendLog(runRow, Note("log", "stale source"))
                     /\ rows' = [rows EXCEPT !.stale = 1]
                ELSE UNCHANGED <<runRow, rows>>
       \/ /\ runRow' \in appendLog(runRow, Note("log", "search error"))
          /\ UNCHANGED <<sources, rows>>

\* prisma.$transaction(discovered.map(source.create))
PersistSources ==
    /\ UNCHANGED o_others
    /\ UNCHANGED extracted
    /\ o_pc = "search"
    /\ o_i = o_cfg.queries
    /\ UNCHANGED <<runRow, entryRow, statusWrites, o_thrown, calls, o_cfg,
                   fetched, queued, guardIssues>>
    /\ \/ /\ sources' = [j \in 1..Len(sources) |-> "OK"]
          /\ rows' = [rows EXCEPT !.source = Len(sources)]
          /\ o_i' = 0
          /\ o_pc' = "extracting1"
          /\ UNCHANGED o_err
       \/ /\ Raise("source transaction failed")
          /\ UNCHANGED <<sources, rows, o_i>>

\* 2) one iteration of `for (const s of sources)`: a single fetch attempt, then
\* source.update with OK or, from the catch, with ERROR (neither update is
\* guarded, so its failure reaches the top-level catch)
FetchSource ==
    /\ UNCHANGED o_others
    /\ UNCHANGED extracted
    /\ o_pc = "fetch"
    /\ o_i < Len(sources)
    /\ calls' = [calls EXCEPT !.fetch = @ + 1]
    /\ UNCHANGED <<entryRow, statusWrites, o_thrown, rows, o_cfg, queued,
                   guardIssues>>
    /\ \/ /\ sources' = [sources EXCEPT ![o_i + 1] = "OK"]
          /\ fetched' = fetched + 1
          /\ o_i' = o_i + 1
          /\ UNCHANGED <<runRow, o_err, o_pc>>
       \/ /\ sources' = [sources EXCEPT ![o_i + 1] = "ERROR"]
          /\ runRow' \in appendLog(runRow, Note("log", "fetch failed"))
          /\ o_i' = o_i + 1
          /\ UNCHANGED <<fetched, o_err, o_pc>>
       \/ /\ Raise("source.update failed")
          /\ UNCHANGED <<sources, fetched, o_i, runRow>>

\* appendLog of the vertical profile, competitor.findMany, loadSettings
PrepareExtraction ==
    /\ UNCHANGED o_others
    /\ UNCHANGED extracted
    /\ o_pc = "prepExtract"
    /\ UNCHANGED <<entryRow, statusWrites, o_thrown, calls, rows, sources, o_cfg,
                   fetched, queued, guardIssues>>
    /\ runRow' \in appendLog(runRow, Note("log", "vertical profile"))
    /\ \/ /\ o_i' = 0
          /\ o_pc' = "extract"
          /\ UNCHANGED o_err
       \/ /\ Raise("competitor.findMany failed")
          /\ UNCHANGED o_i

UseAIAlways(resolved) == resolved

\* useAIExtraction && brand && compId
UseAI(resolved) == o_cfg.ai /\ resolved

\* 3) one iteration of `for (const s of fetched)`: competitor resolution, the AI
\* attempt (extractStructuredDataFromContent, then standardizeAndFilter-
\* Capabilities when capabilities came back), the regex path when
\* aiExtractionSuccess is false.  kind is what the AI attempt did.
ExtractSource ==
    /\ UNCHANGED o_others
    /\ o_pc = "extract"
    /\ o_i < fetched
    /\ o_i' = o_i + 1
    /\ UNCHANGED <<entryRow, statusWrites, o_err, o_thrown, sources, o_cfg, o_pc,
                   fetched, guardIssues>>
    /\ \E resolved \in BOOLEAN, newComp \in 0..1, caps \in 0..1 :
         /\ rows' = [rows EXCEPT !.competitor =
                        IF resolved /\ @ = 0 THEN @ + newComp ELSE @]
         /\ IF UseAI(resolved)
            THEN \E kind \in {"null", "throws", "data", "dataThenThrows"} :
                   /\ calls' = [calls EXCEPT !.ai =
                         @ + (IF kind \in {"data", "dataThenThrows"} /\ caps > 0
                              THEN 2 ELSE 1)]
                   /\ queued' = [cap |-> queued.cap + caps, feat |-> queued.feat + caps]
                   /\ runRow' \in appendLog(runRow, Note("log", kind))
                   \* aiExtractionSuccess is set once aiData came back, before
                   \* the rest of the branch; the regex path runs when it is false
                   /\ extracted' = [n |-> extracted.n + 1,
                                    ai |-> extracted.ai + (IF kind = "data" THEN 1 ELSE 0),
                                    regex |-> extracted.regex
                                        + (IF kind \in {"null", "throws"} THEN 1 ELSE 0)]
            ELSE /\ UNCHANGED calls
                 /\ queued' = [cap |-> queued.cap + caps, feat |-> queued.feat + caps]
                 /\ UNCHANGED runRow
                 /\ extracted' = [extracted EXCEPT !.n = @ + 1, !.regex = @ + 1]

\* capability / feature dedup, ensureFeatureDefinitions, the persistence
\* transaction
PersistEntities ==
    /\ UNCHANGED o_others
    /\ UNCHANGED extracted
    /\ o_pc = "extract"
    /\ o_i = fetched
    /\ UNCHANGED <<runRow, entryRow, statusWrites, o_thrown, calls, sources, o_cfg,
                   o_i, fetched, queued, guardIssues>>
    /\ \/ /\ rows' = [rows EXCEPT !.capability = queued.cap, !.feature = queued.feat]
          /\ o_pc' = "synthesizing1"
          /\ UNCHANGED o_err
       \/ /\ queued.feat > 0
          /\ Raise("ensureFeatureDefinitions failed")
          /\ UNCHANGED rows
       \/ /\ Raise("entity transaction failed")
          /\ UNCHANGED rows

\* 4) synthesis: the reads, the deterministic findings, the AI insights when a
\* provider is configured (failure caught), the findings transaction
Synthesize ==
    /\ UNCHANGED o_others
    /\ UNCHANGED extracted
    /\ o_pc = "synthesize"
    /\ UNCHANGED <<entryRow, statusWrites, o_thrown, sources, o_cfg, o_i, fetched,
                   queued, guardIssues>>
    /\ \/ /\ Raise("synthesis read failed")
          /\ UNCHANGED <<runRow, calls, rows>>
       \/ /\ calls' = [calls EXCEPT !.ai = IF o_cfg.ai THEN @ + 1 ELSE @]
          /\ runRow' \in appendLog(runRow, Note("log", "synthesis"))
          /\ \/ \E n \in 0..1, u \in 0..1 :
                  /\ u <= n
                  /\ rows' = [rows EXCEPT !.finding = n, !.uncited = u]
                  /\ o_pc' = "synthesizing2"
                  /\ UNCHANGED o_err
             \/ /\ Raise("finding transaction failed")
                /\ UNCHANGED rows

\* 5) report generation: the reads and report.create
CreateReport ==
    /\ UNCHANGED o_others
    /\ UNCHANGED extracted
    /\ o_pc = "report"
    /\ UNCHANGED <<runRow, entryRow, statusWrites, o_thrown, calls, sources, o_cfg,
                   o_i, fetched, queued, guardIssues>>
    /\ \/ /\ rows' = [rows EXCEPT !.report = 1]
          /\ o_pc' = "qa1"
          /\ UNCHANGED o_err
       \/ /\ Raise("report.create failed")
          /\ UNCHANGED rows

\* 6) change detection against the previous COMPLETE run: run.findFirst is not
\* guarded; detection, storing and alerts are inside a try / catch
ChangeDetection ==
    /\ UNCHANGED o_others
    /\ UNCHANGED extracted
    /\ o_pc = "changeDetection"
    /\ UNCHANGED <<entryRow, statusWrites, o_thrown, calls, rows, sources, o_cfg,
                   o_i, fetched, queued, guardIssues>>
    /\ \/ /\ Raise("run.findFirst failed")
          /\ UNCHANGED runRow
       \/ /\ \E outcome \in (IF o_cfg.prior THEN {"completed", "failed"} ELSE {"no previous run"}) :
                runRow' \in appendLog(runRow, Note("log", outcome))
          /\ o_pc' = "qa2"
          /\ UNCHANGED o_err

\* thresholds of runGuardrails
MinSources == 5
MinCapabilities == 10

\* runGuardrails: the issue list computed from the run's persisted rows
runGuardrails ==
       (IF rows.uncited > 0 THEN {"Findings without citations"} ELSE {})
    \cup (IF rows.source < MinSources THEN {"Low source count"} ELSE {})
    \cup (IF rows.capability < MinCapabilities THEN {"Low capability count"} ELSE {})
    \cup (IF rows.competitor = 0 THEN {"No competitors identified"} ELSE {})
    \cup (IF rows.stale > 0 THEN {"Stale sources detected"} ELSE {})
    \cup (IF 10 * Cardinality({j \in 1..Len(sources) : sources[j] = "ERROR"})
               > 3 * Len(sources)
          THEN {"High source fetch failure rate"} ELSE {})

\* 7) `const guard = await runGuardrails(...)` and the appendLog of its issues:
\* the four findMany reads of runGuardrails are not guarded
GuardrailStep ==
    /\ UNCHANGED o_others
    /\ UNCHANGED extracted
    /\ o_pc = "guardrails"
    /\ UNCHANGED <<entryRow, statusWrites, o_thrown, calls, rows, sources, o_cfg,
                   o_i, fetched, queued>>
    /\ \/ /\ Raise(ErrGuardrails)
          /\ UNCHANGED <<runRow, guardIssues>>
       \/ /\ guardIssues' = runGuardrails
          /\ runRow' \in appendLog(runRow, Note("log", "Guardrails"))
          /\ o_pc' = "complete"
          /\ UNCHANGED o_err

\* 8) the completion notification: everything inside try / catch
Notify ==
    /\ UNCHANGED o_others
    /\ UNCHANGED extracted
    /\ o_pc = "notify"
    /\ UNCHANGED <<entryRow, statusWrites, o_err, o_thrown, calls, rows, sources,
                   o_cfg, o_i, fetched, queued, guardIssues>>
    /\ runRow' \in appendLog(runRow, Note("log", "email"))
    /\ o_pc' = "returned"

\* the top-level catch: setStatus(ERROR, message), appendLog(FATAL ERROR),
\* `throw error`.  run.update rejects when the row does not exist or the store
\* fails; that rejection leaves the catch block instead of `error`.
FatalHandler ==
    /\ UNCHANGED o_others
    /\ UNCHANGED extracted
    /\ o_pc = "catch"
    /\ o_pc' = "thrown"
    /\ UNCHANGED <<entryRow, o_err, calls, rows, sources, o_cfg, o_i, fetched,
                   queued, guardIssues>>
    /\ \/ /\ ~runRow.exists
          /\ o_thrown' = ErrRecordMissing
          /\ UNCHANGED <<runRow, statusWrites>>
       \/ /\ runRow.exists
          /\ o_thrown' = ErrStatusUpdate
          /\ UNCHANGED <<runRow, statusWrites>>
       \/ /\ runRow.exists
          /\ runRow' \in appendLog(setStatus(runRow, "ERROR", Note("Error", o_err), FALSE),
                                   Note("FATAL ERROR", o_err))
          /\ statusWrites' = Append(statusWrites, "ERROR")
          /\ o_thrown' = o_err

o_Init ==
    /\ o_pc = "start"
    /\ runRow \in {NoRun} \cup {MkRun(st) : st \in EntryStatuses}
    /\ entryRow = runRow
    /\ statusWrites = <<>>
    /\ o_err = "none"
    /\ o_thrown = "none"
    /\ calls = ZeroCalls
    /\ extracted = [n |-> 0, ai |-> 0, regex |-> 0]
    /\ rows = ZeroRows
    /\ sources = <<>>
    /\ o_cfg \in [queries : 0..MaxQueries, ai : BOOLEAN, prior : BOOLEAN]
    /\ o_i = 0
    /\ fetched = 0
    /\ queued = [cap |-> 0, feat |-> 0]
    /\ guardIssues = {}

o_Next ==
    \/ LoadRun
    \/ \E site \in StatusSites : SetStatusStep(site)
    \/ LoadSettings
    \/ SearchQuery
    \/ PersistSources
    \/ FetchSource
    \/ PrepareExtraction
    \/ ExtractSource
    \/ PersistEntities
    \/ Synthesize
    \/ CreateReport
    \/ ChangeDetection
    \/ GuardrailStep
    \/ Notify
    \/ FatalHandler

\* the scheduler before its first schedule / start call
s_Idle ==
    /\ tasks = <<>>
    /\ isRunning = FALSE
    /\ loops = EmptyBag
    /\ now = 0
    /\ nextId = 1
    /\ dispatched = [id \in 1..MaxTasks |-> 0]
    /\ finished = {}
    /\ cancelled = {}

\* no orchestrator invocation in progress
o_Idle ==
    /\ o_pc = "idle"
    /\ runRow = NoRun
    /\ entryRow = NoRun
    /\ statusWrites = <<>>
    /\ o_err = "none"
    /\ o_thrown = "none"
    /\ calls = ZeroCalls
    /\ extracted = [n |-> 0, ai |-> 0, regex |-> 0]
    /\ rows = ZeroRows
    /\ sources = <<>>
    /\ o_cfg = [queries |-> 0, ai |-> FALSE, prior |-> FALSE]
    /\ o_i = 0
    /\ fetched = 0
    /\ queued = [cap |-> 0, feat |-> 0]
    /\ guardIssues = {}

\* no ensureFeatureDefinitions call in progress, an empty catalog
f_Idle ==
    /\ defs = {}
    /\ f_proc = [p \in 1..2 |-> [pc |-> "idle"]]
    /\ nextDefId = 1
    /\ f_call = [n |-> 0, names |-> <<>>, before |-> {}, same |-> FALSE]

\* no feature candidate collected yet
x_Idle ==
    /\ featureCandidates = <<>>
    /\ featureRows = <<>>
    /\ featureTx = "pending"

\* a query of the discovery loop before its results are read
NoQuery == [results |-> <<>>, fallback |-> <<>>, relevant |-> <<>>,
            selectedResults |-> <<>>, seenAtStart |-> {}]

\* discovery not begun
d_Idle ==
    /\ relevanceTokens = "nonempty"
    /\ seen = {}
    /\ discovered = <<>>
    /\ d_pc = "queries"
    /\ d_n = 0
    /\ d_q = NoQuery
    /\ sourceRows = <<>>

\* no pricing point written, synthesis not reached
p_Idle ==
    /\ allPricing = <<>>
    /\ pricingFindings = <<>>
    /\ p_pc = "extraction"

\* `const concurrency = 3`
Concurrency == 3

\* no handleAutoRerun call made
NoHandler == [pc |-> "idle", projectId |-> 0, run |-> 0]

r_Idle ==
    /\ runs = <<>>
    /\ credit = [used |-> 0, limit |-> 0]
    /\ handlers = [h \in 1..Concurrency |-> NoHandler]
    /\ day = 0
    /\ invoked = 0

\* no capability collected
c_Idle ==
    /\ capWrites = <<>>
    /\ capRows = <<>>
    /\ capFindings = <<>>
    /\ c_pc = "extraction"

InitOrch == o_Init /\ s_Idle /\ f_Idle /\ x_Idle /\ d_Idle /\ p_Idle /\ r_Idle /\ c_Idle

SpecOrch == InitOrch /\ [][o_Next]_vars

-----------------------------------------------------------------------------
(* Claims about the Run Orchestrator, checked under SpecOrch *)

RECURSIVE Collapse(_)
\* a sequence with its consecutive repeats collapsed
Collapse(seq) ==
    IF Len(seq) <= 1 THEN seq
    ELSE IF seq[1] = seq[2] THEN Collapse(Tail(seq))
         ELSE <<seq[1]>> \o Collapse(Tail(seq))

\* C1: an invocation that returns without throwing on a run that was not
\* SKIPPED at entry has written, repeats collapsed, exactly DISCOVERING,
\* EXTRACTING, SYNTHESIZING, QA, COMPLETE, in that order.
C1_StatusOrder ==
    (o_pc = "returned" /\ entryRow.exists /\ entryRow.status # "SKIPPED")
        => Collapse(statusWrites) =
             <<"DISCOVERING", "EXTRACTING", "SYNTHESIZING", "QA", "COMPLETE">>

C1_Witness ==
    /\ o_pc = "returned"
    /\ entryRow.exists /\ entryRow.status = "NEW"
    /\ Len(statusWrites) = 8
    /\ runRow.status = "COMPLETE"

\* C2: an invocation on a run whose persisted status is SKIPPED returns having
\* made no search, fetch or AI call, created no row, and left the Run row
\* (status, lastNote, startedAt, completedAt) as it was.
C2_SkippedNoEffect ==
    (o_pc = "returned" /\ entryRow.exists /\ entryRow.status = "SKIPPED")
        => /\ calls = ZeroCalls
           /\ rows = ZeroRows
           /\ sources = <<>>
           /\ statusWrites = <<>>
           /\ runRow = entryRow

C2_Witness ==
    /\ o_pc = "returned"
    /\ entryRow.exists /\ entryRow.status = "SKIPPED"
    /\ o_cfg.queries > 0

\* C3: whenever orchestrateRun throws to its caller, the Run's status is ERROR,
\* its lastNote carries the message of the exception, and the exception thrown
\* to the caller is the original one.
C3_FatalSetsErrorAndRethrows ==
    o_pc = "thrown"
        => /\ runRow.exists
           /\ runRow.status = "ERROR"
           /\ runRow.lastNote.msg = o_err
           /\ o_thrown = o_err

\* C4: the guardrail step is non-fatal: nothing that happens inside
\* runGuardrails raises into the pipeline, so no invocation ends in the fatal
\* handler because of it.
C4_GuardrailsNeverRaise ==
    o_err # ErrGuardrails

-----------------------------------------------------------------------------
(* Task Scheduler *)

Range(seq) == {seq[j] : j \in 1..Len(seq)}
Take(seq, k) == SubSeq(seq, 1, IF k < Len(seq) THEN k ELSE Len(seq))
Drop(seq, k) == SubSeq(seq, k + 1, Len(seq))
Ids(seq) == [j \in 1..Len(seq) |-> seq[j].id]

SortByTimeKeepsOrder(seq) == seq

RECURSIVE SortByTime(_)
\* Array.prototype.sort with (a, b) => a.scheduledFor - b.scheduledFor: stable
SortByTime(seq) ==
    IF Len(seq) <= 1 THEN seq
    ELSE LET rest == SortByTime(SubSeq(seq, 1, Len(seq) - 1))
             x    == seq[Len(seq)]
             k    == Cardinality({j \in 1..Len(rest) :
                                     rest[j].scheduledFor <= x.scheduledFor})
         IN SubSeq(rest, 1, k) \o <<x>> \o SubSeq(rest, k + 1, Len(rest))

\* the value getNextTaskTime returns for an empty queue: null
NoTime == -1

\* getNextTaskTime(): this.tasks.length > 0 ? this.tasks[0].scheduledFor : null
getNextTaskTime(T) == IF Len(T) > 0 THEN T[1].scheduledFor ELSE NoTime

ReadyTasksBefore(T, n) == SelectSeq(T, LAMBDA t : t.scheduledFor < n)

\* this.tasks.filter(task => task.scheduledFor <= now)
ReadyTasks(T, n) == SelectSeq(T, LAMBDA t : t.scheduledFor <= n)

PendingTasksKeepsAll(T, n) == T

\* this.tasks.filter(task => task.scheduledFor > now)
PendingTasks(T, n) == SelectSeq(T, LAMBDA t : t.scheduledFor > n)

Sleeping == [pc |-> "sleep", readyTasks |-> <<>>, i |-> 0, batch |-> {},
             raised |-> FALSE]

\* `for (i = 0; ...; i += concurrency)`: batch = readyTasks.slice(i, i + concurrency)
\* is started, the rest waits
StartBatch(ids, i, raised) ==
    [pc |-> "batch", readyTasks |-> ids, i |-> i,
     batch |-> Range(Take(Drop(ids, i), Concurrency)), raised |-> raised]

\* one pass of the body of `while (this.isRunning)` up to its first await, run by
\* an invocation of process() on queue T beside the invocations L: select,
\* remove, start the first batch; or go to sleep
PollIteration(T, L) ==
    LET ready == Ids(ReadyTasks(T, now)) IN
    IF Len(ready) > 0
    THEN /\ tasks' = PendingTasks(T, now)
         /\ loops' = L (+) SetToBag({StartBatch(ready, 0, FALSE)})
         /\ dispatched' = [id \in 1..MaxTasks |->
                             IF id \in Range(Take(ready, Concurrency))
                             THEN dispatched[id] + 1 ELSE dispatched[id]]
    ELSE /\ tasks' = T
         /\ loops' = L (+) SetToBag({Sleeping})
         /\ UNCHANGED dispatched

\* the live invocations of process()
Live == BagToSet(loops)

\* schedule(task): push, sort, start() when not running
Schedule(sf) ==
    /\ UNCHANGED s_others
    /\ nextId <= MaxTasks
    /\ nextId' = nextId + 1
    /\ LET T == SortByTime(Append(tasks, [id |-> nextId, scheduledFor |-> sf])) IN
       IF ~isRunning
       THEN /\ BagCardinality(loops) < MaxLoops
            /\ isRunning' = TRUE
            /\ PollIteration(T, loops)
       ELSE /\ tasks' = T
            /\ UNCHANGED <<isRunning, loops, dispatched>>
    /\ UNCHANGED <<now, finished, cancelled>>

\* this.tasks.findIndex(task => task.id === taskId); 0 stands for -1
FindIndex(T, taskId) ==
    IF \E j \in 1..Len(T) : T[j].id = taskId
    THEN CHOOSE j \in 1..Len(T) :
           T[j].id = taskId /\ \A k \in 1..(j - 1) : T[k].id # taskId
    ELSE 0

SpliceFirst(T, index) == Tail(T)

\* this.tasks.splice(index, 1)
Splice(T, index) == SubSeq(T, 1, index - 1) \o SubSeq(T, index + 1, Len(T))

\* cancel(taskId) on queue T: the queue it leaves and the value it returns
cancel(T, taskId) ==
    LET index == FindIndex(T, taskId) IN
    IF index = 0
    THEN [tasks |-> T, result |-> FALSE]
    ELSE [tasks |-> Splice(T, index), result |-> TRUE]

\* a call cancel(taskId); id 0 is an id schedule never returned
Cancel(taskId) ==
    /\ UNCHANGED s_others
    /\ tasks' = cancel(tasks, taskId).tasks
    /\ cancelled' = IF cancel(tasks, taskId).result
                    THEN cancelled \cup {taskId} ELSE cancelled
    /\ UNCHANGED <<isRunning, loops, now, nextId, dispatched, finished>>

\* start(): returns when running; else sets isRunning and calls process(), which
\* runs to its first await
Start ==
    /\ UNCHANGED s_others
    /\ ~isRunning
    /\ BagCardinality(loops) < MaxLoops
    /\ isRunning' = TRUE
    /\ PollIteration(tasks, loops)
    /\ UNCHANGED <<now, nextId, finished, cancelled>>

\* stop(): returns when not running; else clears isRunning
Stop ==
    /\ UNCHANGED s_others
    /\ isRunning
    /\ isRunning' = FALSE
    /\ UNCHANGED <<tasks, loops, now, nextId, dispatched, finished,
                   cancelled>>

\* the sleep of an invocation ends: the while condition is tested, then the next
\* pass, or process() returns
Poll ==
    /\ UNCHANGED s_others
    /\ BagIn(Sleeping, loops)
    /\ IF isRunning
       THEN PollIteration(tasks, loops (-) SetToBag({Sleeping}))
       ELSE /\ loops' = loops (-) SetToBag({Sleeping})
            /\ UNCHANGED <<tasks, dispatched>>
    /\ UNCHANGED <<isRunning, now, nextId, finished, cancelled>>

SettleDropsWaiting(lp, t, ok) ==
    LET b == lp.batch \ {t}
        r == lp.raised \/ ~ok
    IN IF b # {} THEN [lp EXCEPT !.batch = b, !.raised = r]
       ELSE IF lp.i + Concurrency < Len(lp.readyTasks) /\ ~r
            THEN StartBatch(lp.readyTasks, lp.i + Concurrency, r)
            ELSE Sleeping

\* loop lp after the executeTask call of t settles: Promise.allSettled resolves
\* when the batch is empty, then the next batch starts or the loop sleeps.
\* executeTask catches what the handler raises, so ok only decides whether t is
\* noted as raised.
Settle(lp, t, ok) ==
    LET b == lp.batch \ {t}
        r == lp.raised \/ ~ok
    IN IF b # {} THEN [lp EXCEPT !.batch = b, !.raised = r]
       ELSE IF lp.i + Concurrency < Len(lp.readyTasks)
            THEN StartBatch(lp.readyTasks, lp.i + Concurrency, r)
            ELSE Sleeping

\* executeTask(t) of the batch of invocation lp settles; ok = FALSE: the handler
\* raised and executeTask caught and logged it
TaskSettles(lp, t, ok) ==
    /\ UNCHANGED s_others
    /\ t \in lp.batch
    /\ finished' = finished \cup {t}
    /\ loops' = (loops (-) SetToBag({lp})) (+) SetToBag({Settle(lp, t, ok)})
    /\ dispatched' = [id \in 1..MaxTasks |->
                        IF id \in Settle(lp, t, ok).batch \ lp.batch
                        THEN dispatched[id] + 1 ELSE dispatched[id]]
    /\ UNCHANGED <<tasks, isRunning, now, nextId, cancelled>>

\* time passes
Tick ==
    /\ UNCHANGED s_others
    /\ now < MaxTime
    /\ now' = now + 1
    /\ UNCHANGED <<tasks, isRunning, loops, nextId, dispatched, finished,
                   cancelled>>

s_Next ==
    \/ \E sf \in 0..MaxTime : Schedule(sf)
    \/ \E id \in 0..(nextId - 1) : Cancel(id)
    \/ Start
    \/ Stop
    \/ Poll
    \/ \E lp \in Live : \E t \in lp.batch : \E ok \in BOOLEAN :
          TaskSettles(lp, t, ok)
    \/ Tick

InitSched == s_Idle /\ o_Idle /\ f_Idle /\ x_Idle /\ d_Idle /\ p_Idle /\ r_Idle /\ c_Idle

SpecSched == InitSched /\ [][s_Next]_vars

\* the event loop resumes every continuation that is ready: a sleep that has
\* ended lets its invocation of process() go on, and every executeTask call
\* settles (its handler's awaits end, and what it raises is caught)
s_Fairness ==
    /\ WF_vars(Poll)
    /\ WF_vars(\E lp \in Live : \E t \in lp.batch : \E ok \in BOOLEAN : TaskSettles(lp, t, ok))

\* the steps of the scheduler with fewer tasks and invocations, for the
\* progress properties
s_NextFair ==
    \/ \E sf \in 0..MaxTime :
          /\ nextId <= MaxFairTasks
          /\ isRunning \/ BagCardinality(loops) < MaxFairLoops
          /\ Schedule(sf)
    \/ \E id \in 0..(nextId - 1) : Cancel(id)
    \/ BagCardinality(loops) < MaxFairLoops /\ Start
    \/ Stop
    \/ Poll
    \/ \E lp \in Live : \E t \in lp.batch : \E ok \in BOOLEAN :
          TaskSettles(lp, t, ok)
    \/ Tick

SpecSchedFair == InitSched /\ [][s_NextFair]_vars /\ s_Fairness

\* the executeTask calls in progress
Executing == UNION {lp.batch : lp \in Live}
\* the tasks selected as ready and waiting for a later batch
Waiting == UNION {Range(Drop(lp.readyTasks, lp.i + Concurrency)) : lp \in Live}
Queued == Range(Ids(tasks))

-----------------------------------------------------------------------------
(* TaskScheduler.handleAutoRerun: the handler of an AUTO_RERUN task.  Up to
   `concurrency` calls run side by side in one batch; each is suspended at its
   awaits (getCreditUsage, run.findFirst, run.create, consume), and the code
   between two awaits runs without interruption.  @/lib/credits is not part of
   the sources: getCreditUsage reads the ledger row, and consume either adds
   the amount to `used` or rejects. *)

\* `daysSinceLastRun < 7`
SpacingDays == 7

\* the createdAt of the rows of project p
CreatedAts(p) == {runs[k].createdAt : k \in {j \in 1..Len(runs) : runs[j].projectId = p}}

\* run.findFirst({where: {projectId}, orderBy: {createdAt: 'desc'}}): createdAt of
\* the latest row
LatestCreatedAt(p) == CHOOSE d \in CreatedAts(p) : \A e \in CreatedAts(p) : e <= d

\* (Date.now() - latestRun.createdAt) / day < 7
TooRecent(latest, today) == today - latest < SpacingDays

\* the status handleAutoRerun gives the Run it creates
CreatedStatus == "PENDING"

\* a Run row created through the API before the scheduler looks at the project
ApiRun(p) == [projectId |-> p, createdAt |-> 0, status |-> "COMPLETE",
              by |-> "API", charged |-> FALSE, orchestrated |-> FALSE]

\* the handler returns, or what it raised was caught by executeTask
Returns(h) == handlers' = [handlers EXCEPT ![h] = NoHandler]

\* executeTask calls handleAutoRerun(task); p = 0: the task has no projectId or
\* its data has no userId
BeginRerun(h, p) ==
    /\ UNCHANGED r_others
    /\ handlers[h].pc = "idle"
    /\ invoked < MaxReruns
    /\ invoked' = invoked + 1
    /\ handlers' = IF p = 0 THEN handlers
                   ELSE [handlers EXCEPT ![h] = [pc |-> "credit", projectId |-> p, run |-> 0]]
    /\ UNCHANGED <<runs, credit, day>>

\* `await getCreditUsage(userId)` resolves; `if (used >= limit) return`
GetCreditUsage(h) ==
    /\ UNCHANGED r_others
    /\ handlers[h].pc = "credit"
    /\ IF credit.used >= credit.limit
       THEN Returns(h)
       ELSE handlers' = [handlers EXCEPT ![h].pc = "find"]
    /\ UNCHANGED <<runs, credit, day, invoked>>

\* `await prisma.run.findFirst(...)` resolves; `if (!latestRun) return`; the
\* 7-day test
FindLatestRun(h) ==
    /\ UNCHANGED r_others
    /\ handlers[h].pc = "find"
    /\ IF CreatedAts(handlers[h].projectId) = {}
       THEN Returns(h)
       ELSE IF TooRecent(LatestCreatedAt(handlers[h].projectId), day)
            THEN Returns(h)
            ELSE handlers' = [handlers EXCEPT ![h].pc = "create"]
    /\ UNCHANGED <<runs, credit, day, invoked>>

\* `await prisma.run.create({data: {projectId, status: 'PENDING'}})` resolves
CreateRun(h) ==
    /\ UNCHANGED r_others
    /\ handlers[h].pc = "create"
    /\ runs' = Append(runs, [projectId |-> handlers[h].projectId, createdAt |-> day,
                             status |-> CreatedStatus, by |-> "AUTO_RERUN",
                             charged |-> FALSE, orchestrated |-> FALSE])
    /\ handlers' = [handlers EXCEPT ![h].pc = "consume", ![h].run = Len(runs) + 1]
    /\ UNCHANGED <<credit, day, invoked>>

\* `await consume(userId, 1)` resolves; orchestrateRun(newRun.id) is called and
\* not awaited; the handler returns
Consume(h) ==
    /\ UNCHANGED r_others
    /\ handlers[h].pc = "consume"
    /\ credit' = [credit EXCEPT !.used = @ + 1]
    /\ runs' = [runs EXCEPT ![handlers[h].run].charged = TRUE,
                            ![handlers[h].run].orchestrated = TRUE]
    /\ Returns(h)
    /\ UNCHANGED <<day, invoked>>

\* the await the handler is suspended in rejects: handleAutoRerun has no try, so
\* the handler ends there and executeTask logs the error
AwaitRejects(h) ==
    /\ UNCHANGED r_others
    /\ handlers[h].pc \in {"credit", "find", "create", "consume"}
    /\ Returns(h)
    /\ UNCHANGED <<runs, credit, day, invoked>>

\* the statuses orchestrateRun writes, in order
RunProgress == <<"DISCOVERING", "EXTRACTING", "SYNTHESIZING", "QA", "COMPLETE">>

\* the status orchestrateRun writes after status st
NextStatus(st) ==
    IF st \in Range(RunProgress) /\ st # "COMPLETE"
    THEN RunProgress[1 + CHOOSE j \in 1..Len(RunProgress) : RunProgress[j] = st]
    ELSE RunProgress[1]

\* the orchestrateRun call started by the handler writes its next status
OrchestratorSetsStatus(k) ==
    /\ UNCHANGED r_others
    /\ runs[k].orchestrated
    /\ runs[k].status \notin {"COMPLETE", "ERROR"}
    /\ runs' = [runs EXCEPT ![k].status = NextStatus(@)]
    /\ UNCHANGED <<credit, handlers, day, invoked>>

\* orchestrateRun rejects: its own catch and the handler's `.catch` both write ERROR
OrchestratorFails(k) ==
    /\ UNCHANGED r_others
    /\ runs[k].orchestrated
    /\ runs[k].status \notin {"COMPLETE", "ERROR"}
    /\ runs' = [runs EXCEPT ![k].status = "ERROR"]
    /\ UNCHANGED <<credit, handlers, day, invoked>>

\* a day passes
DayPasses ==
    /\ UNCHANGED r_others
    /\ day < MaxDay
    /\ day' = day + 1
    /\ UNCHANGED <<runs, credit, handlers, invoked>>

r_Next ==
    \/ \E h \in 1..Concurrency : \E p \in 0..MaxProjects : BeginRerun(h, p)
    \/ \E h \in 1..Concurrency : GetCreditUsage(h)
    \/ \E h \in 1..Concurrency : FindLatestRun(h)
    \/ \E h \in 1..Concurrency : CreateRun(h)
    \/ \E h \in 1..Concurrency : Consume(h)
    \/ \E h \in 1..Concurrency : AwaitRejects(h)
    \/ \E k \in 1..Len(runs) : OrchestratorSetsStatus(k)
    \/ \E k \in 1..Len(runs) : OrchestratorFails(k)
    \/ DayPasses

\* the projects 1..n have a Run created through the API; the user has used some
\* of the credits of the month
r_Init ==
    /\ \E n \in 0..MaxProjects : runs = [p \in 1..n |-> ApiRun(p)]
    /\ \E used \in 0..MaxCredits : credit = [used |-> used, limit |-> MaxCredits]
    /\ handlers = [h \in 1..Concurrency |-> NoHandler]
    /\ day = 0
    /\ invoked = 0

InitRerun == r_Init /\ o_Idle /\ s_Idle /\ f_Idle /\ x_Idle /\ d_Idle /\ p_Idle /\ c_Idle

SpecRerun == InitRerun /\ [][r_Next]_vars

-----------------------------------------------------------------------------
(* orchestrateRun: the capabilities collected by extraction are deduplicated by
   category and normalized name, persisted, read back, grouped by the same key,
   and reported as COMMON_FEATURE and DIFFERENTIATOR findings. *)

CapCategories == {"Security", "Integrations"}
CapNames == {"sso", "audit log", "api"}

\* `${c.category}|${c.normalized.toLowerCase()}`
CapKey(c) == <<c.category, c.normalized>>

\* capWrites.filter(...) with capSeen: the first capability of each key
DedupCaps(caps) ==
    SelectSeq([j \in 1..Len(caps) |-> [cap |-> caps[j], j |-> j]],
              LAMBDA e : \A m \in 1..(e.j - 1) : CapKey(caps[m]) # CapKey(e.cap))

\* groupBy + Object.entries: one entry per key, in order of first appearance,
\* with the number of rows of the key
CapEntries(allCaps) ==
    LET firsts == DedupCaps(allCaps) IN
    [j \in 1..Len(firsts) |->
        [key |-> CapKey(firsts[j].cap),
         length |-> Cardinality({m \in 1..Len(allCaps) : CapKey(allCaps[m]) = CapKey(firsts[j].cap)})]]

RECURSIVE SortByLengthDesc(_)
\* Array.prototype.sort with (a, b) => b[1].length - a[1].length: stable
SortByLengthDesc(entries) ==
    IF Len(entries) <= 1 THEN entries
    ELSE LET rest == SortByLengthDesc(SubSeq(entries, 1, Len(entries) - 1))
             x    == entries[Len(entries)]
             k    == Cardinality({j \in 1..Len(rest) : rest[j].length >= x.length})
         IN SubSeq(rest, 1, k) \o <<x>> \o SubSeq(rest, k + 1, Len(rest))

\* the slice bounds of `common`, of the COMMON_FEATURE loop and of `rare`
CommonSlice == 15
CommonReported == 10
RareSlice == 10
\* `if (capTotal >= 5)`
MinRareTotal == 5

\* `common`
CommonCaps(allCaps) ==
    IF Len(allCaps) > 0 THEN Take(SortByLengthDesc(CapEntries(allCaps)), CommonSlice) ELSE <<>>

\* `rare`
RareCaps(allCaps) ==
    IF Len(allCaps) > 0
    THEN Take(SelectSeq(CapEntries(allCaps), LAMBDA e : e.length = 1), RareSlice)
    ELSE <<>>

\* the findings the `// Common features` and `// Differentiators` blocks push
CapabilityFindings(allCaps) ==
    LET common == Take(CommonCaps(allCaps), CommonReported)
        rare   == IF Len(allCaps) >= MinRareTotal THEN RareCaps(allCaps) ELSE <<>>
    IN   [j \in 1..Len(common) |-> [kind |-> "COMMON_FEATURE", key |-> common[j].key]]
      \o [j \in 1..Len(rare) |-> [kind |-> "DIFFERENTIATOR", key |-> rare[j].key]]

\* extraction pushes a capability to capWrites
PushCapability(category, normalized) ==
    /\ UNCHANGED c_others
    /\ c_pc = "extraction"
    /\ Len(capWrites) < MaxCapWrites
    /\ capWrites' = Append(capWrites, [category |-> category, normalized |-> normalized])
    /\ UNCHANGED <<capRows, capFindings, c_pc>>

\* capUnique is computed and written in the persistence transaction
PersistCapabilities ==
    /\ UNCHANGED c_others
    /\ c_pc = "extraction"
    /\ capRows' = [j \in 1..Len(DedupCaps(capWrites)) |-> DedupCaps(capWrites)[j].cap]
    /\ c_pc' = "persisted"
    /\ UNCHANGED <<capWrites, capFindings>>

\* synthesis: allCaps = capability.findMany({where: {runId}}), then the findings
SynthesizeCapabilities ==
    /\ UNCHANGED c_others
    /\ c_pc = "persisted"
    /\ capFindings' = CapabilityFindings(capRows)
    /\ c_pc' = "synthesized"
    /\ UNCHANGED <<capWrites, capRows>>

c_Next ==
    \/ \E category \in CapCategories : \E normalized \in CapNames :
          PushCapability(category, normalized)
    \/ PersistCapabilities
    \/ SynthesizeCapabilities

InitCaps == c_Idle /\ o_Idle /\ s_Idle /\ f_Idle /\ x_Idle /\ d_Idle /\ p_Idle /\ r_Idle

SpecCaps == InitCaps /\ [][c_Next]_vars

-----------------------------------------------------------------------------
(* Canonicalization: src/lib/normalize.ts.  A string is a sequence of
   one-character strings over the alphabet below. *)

UpperLetters == <<"A", "B", "O", "S", "G", "I", "L", "N", "D", "T", "U">>
LowerLetters == <<"a", "b", "o", "s", "g", "i", "l", "n", "d", "t", "u">>
Digits == {"2"}

\* String.prototype.toLowerCase on one character
ToLower(c) ==
    IF \E j \in 1..Len(UpperLetters) : UpperLetters[j] = c
    THEN LowerLetters[CHOOSE j \in 1..Len(UpperLetters) : UpperLetters[j] = c]
    ELSE c

\* String.prototype.toUpperCase on one character
ToUpper(c) ==
    IF \E j \in 1..Len(LowerLetters) : LowerLetters[j] = c
    THEN UpperLetters[CHOOSE j \in 1..Len(LowerLetters) : LowerLetters[j] = c]
    ELSE c

\* .normalize('NFKD').replace(/[\u0300-\u036f]/g, ''): the base character
StripDiacritics(c) == IF c = "é" THEN "e" ELSE c

\* NON_ALPHANUM = /[^a-z0-9\+]/g is replaced by a space
IsAlphanum(c) == c \in Range(LowerLetters) \cup Digits \cup {"e", "+"}

RECURSIVE CollapseSpaces(_)
\* .replace(/\s+/g, ' ')
CollapseSpaces(str) ==
    IF Len(str) <= 1 THEN str
    ELSE IF str[1] = " " /\ str[2] = " " THEN CollapseSpaces(Tail(str))
         ELSE <<str[1]>> \o CollapseSpaces(Tail(str))

RECURSIVE TrimLeft(_)
TrimLeft(str) ==
    IF Len(str) > 0 /\ str[1] = " " THEN TrimLeft(Tail(str)) ELSE str

RECURSIVE TrimRight(_)
TrimRight(str) ==
    IF Len(str) > 0 /\ str[Len(str)] = " "
    THEN TrimRight(SubSeq(str, 1, Len(str) - 1)) ELSE str

\* String.prototype.trim
Trim(str) == TrimRight(TrimLeft(str))

normalizeFeature(raw) ==
    LET lowered  == [j \in 1..Len(raw) |-> ToLower(StripDiacritics(raw[j]))]
        replaced == [j \in 1..Len(raw) |->
                        IF IsAlphanum(lowered[j]) THEN lowered[j] ELSE " "]
    IN Trim(CollapseSpaces(replaced))

\* norm.split(' ').map(part => part[0].toUpperCase() + part.slice(1)).join(' ')
canonicalFeatureName(raw) ==
    LET norm == normalizeFeature(raw) IN
    [j \in 1..Len(norm) |->
        IF j = 1 \/ norm[j - 1] = " " THEN ToUpper(norm[j]) ELSE norm[j]]

-----------------------------------------------------------------------------
(* orchestrateRun, discovery: the search results of each query, the selection
   and the seen set *)

Pages == {"p1", "p2", "p3"}
\* the page whose title, snippet or url holds a relevance token or a competitor
MatchingPages == {"p3"}

\* a url is its page and its fragment; a string that is no url has no page
InvalidUrl == [page |-> "not a url", hash |-> ""]
\* the '' that normalizeUrl returns
NoUrl == [page |-> "", hash |-> ""]

\* the urls search results carry
ResultUrls == { [page |-> "p1", hash |-> ""], [page |-> "p1", hash |-> "#a"],
                [page |-> "p2", hash |-> ""], [page |-> "p3", hash |-> ""],
                InvalidUrl }

\* new URL(url), u.hash = '', u.toString(); '' when URL throws
normalizeUrl(url) ==
    IF url.page \in Pages THEN [page |-> url.page, hash |-> ""] ELSE NoUrl

\* score of one result: 1 by default without relevance tokens, else the tokens
\* found in its body; plus 2 for a competitor found in it
Score(url) ==
    (IF relevanceTokens = "empty" THEN 1
     ELSE IF url.page \in MatchingPages THEN 1 ELSE 0)
    + (IF url.page \in MatchingPages THEN 2 ELSE 0)

\* relevanceTokens is built from the project inputs, before the loop
BuildTokens ==
    /\ UNCHANGED d_others
    /\ d_pc = "queries" /\ d_n = 0 /\ relevanceTokens = "nonempty"
    /\ relevanceTokens' = "empty"
    /\ UNCHANGED <<seen, discovered, d_pc, d_n, d_q, sourceRows>>

\* `for (const q of queries)`: search.search(q) resolves, or rejects and the
\* error is caught and logged
SearchStarts ==
    /\ UNCHANGED d_others
    /\ d_pc \in {"queries", "selected"}
    /\ d_n < MaxQueries
    /\ d_n' = d_n + 1
    /\ \/ /\ d_pc' = "scan"
          /\ d_q' = [NoQuery EXCEPT !.seenAtStart = seen]
       \/ /\ d_pc' = "queries"
          /\ d_q' = NoQuery
    /\ UNCHANGED <<relevanceTokens, seen, discovered, sourceRows>>

\* one iteration of `for (const r of results)`
ScanResult(url) ==
    /\ UNCHANGED d_others
    /\ d_pc = "scan"
    /\ Len(d_q.results) < MaxResults
    /\ LET norm == normalizeUrl(url)
           skip == norm = NoUrl \/ norm \in seen
       IN d_q' = [d_q EXCEPT
                    !.results = Append(@, url),
                    !.fallback = IF skip THEN @ ELSE Append(@, url),
                    !.relevant = IF ~skip /\ Score(url) > 0 THEN Append(@, url) ELSE @]
    /\ UNCHANGED <<relevanceTokens, seen, discovered, d_pc, d_n, sourceRows>>

SelectedResultsAll(relevant, fallback) ==
    IF Len(relevant) > 0 THEN relevant ELSE fallback

\* relevant.length > 0 ? relevant : fallback.slice(0, 3)
SelectedResults(relevant, fallback) ==
    IF Len(relevant) > 0 THEN relevant ELSE Take(fallback, 3)

PushAllNoSeen(sel, sn, disc) ==
    [seen |-> sn \cup {normalizeUrl(sel[j]) : j \in 1..Len(sel)},
     discovered |-> disc \o [j \in 1..Len(sel) |-> normalizeUrl(sel[j])]]

RECURSIVE PushAll(_, _, _)
\* `for (const r of selectedResults)`: skip a url '' or seen, else seen.add and
\* discovered.push
PushAll(sel, sn, disc) ==
    IF Len(sel) = 0 THEN [seen |-> sn, discovered |-> disc]
    ELSE LET norm == normalizeUrl(Head(sel)) IN
         IF norm = NoUrl \/ norm \in sn THEN PushAll(Tail(sel), sn, disc)
         ELSE PushAll(Tail(sel), sn \cup {norm}, Append(disc, norm))

\* the results are exhausted: selectedResults, then the second loop
SelectResults ==
    /\ UNCHANGED d_others
    /\ d_pc = "scan"
    /\ LET sel == SelectedResults(d_q.relevant, d_q.fallback)
           out == PushAll(sel, seen, discovered)
       IN /\ d_q' = [d_q EXCEPT !.selectedResults = sel]
          /\ seen' = out.seen
          /\ discovered' = out.discovered
    /\ d_pc' = "selected"
    /\ UNCHANGED <<relevanceTokens, d_n, sourceRows>>

\* prisma.$transaction(discovered.map(d => prisma.source.create(...)))
PersistDiscovered ==
    /\ UNCHANGED d_others
    /\ d_pc \in {"queries", "selected"}
    /\ d_n > 0
    /\ sourceRows' = discovered
    /\ d_pc' = "persisted"
    /\ UNCHANGED <<relevanceTokens, seen, discovered, d_n, d_q>>

d_Next ==
    \/ BuildTokens
    \/ SearchStarts
    \/ \E url \in ResultUrls : ScanResult(url)
    \/ SelectResults
    \/ PersistDiscovered

InitDiscovery == d_Idle /\ o_Idle /\ s_Idle /\ f_Idle /\ x_Idle /\ p_Idle /\ r_Idle /\ c_Idle

SpecDiscovery == InitDiscovery /\ [][d_Next]_vars

-----------------------------------------------------------------------------
(* orchestrateRun, synthesis: the pricing insight.  priceMonthly is a JavaScript
   number: an IEEE-754 double, here a mantissa m of 53 bits and an exponent e
   with value m * 2^e.  The mantissa is a natural number written as a sequence
   of digits in base Base, least significant first. *)

BaseBits == 14
Base == 2^BaseBits

RECURSIVE BigOfInt(_)
BigOfInt(n) == IF n = 0 THEN <<>> ELSE <<n % Base>> \o BigOfInt(n \div Base)

RECURSIVE BigNorm(_)
\* without leading zero digits
BigNorm(a) ==
    IF a = <<>> \/ a[Len(a)] # 0 THEN a ELSE BigNorm(SubSeq(a, 1, Len(a) - 1))

RECURSIVE BigMulCarry(_, _, _)
BigMulCarry(a, k, carry) ==
    IF a = <<>> THEN BigOfInt(carry)
    ELSE LET v == a[1] * k + carry
         IN <<v % Base>> \o BigMulCarry(Tail(a), k, v \div Base)

\* a * k for 0 <= k <= Base
BigMulSmall(a, k) == BigNorm(BigMulCarry(a, k, 0))

RECURSIVE BigAddCarry(_, _, _)
BigAddCarry(a, b, carry) ==
    IF a = <<>> /\ b = <<>> THEN BigOfInt(carry)
    ELSE LET x == IF a = <<>> THEN 0 ELSE a[1]
             y == IF b = <<>> THEN 0 ELSE b[1]
             v == x + y + carry
         IN <<v % Base>> \o BigAddCarry(IF a = <<>> THEN a ELSE Tail(a),
                                         IF b = <<>> THEN b ELSE Tail(b),
                                         v \div Base)

BigAdd(a, b) == BigAddCarry(a, b, 0)

RECURSIVE BigSubBorrow(_, _, _)
BigSubBorrow(a, b, borrow) ==
    IF a = <<>> THEN <<>>
    ELSE LET y == IF b = <<>> THEN 0 ELSE b[1]
             v == a[1] - y - borrow
         IN <<IF v < 0 THEN v + Base ELSE v>>
                \o BigSubBorrow(Tail(a), IF b = <<>> THEN b ELSE Tail(b),
                                IF v < 0 THEN 1 ELSE 0)

\* a - b for a >= b
BigSub(a, b) == BigNorm(BigSubBorrow(a, b, 0))

RECURSIVE BigCmpFrom(_, _, _)
BigCmpFrom(a, b, i) ==
    IF i = 0 THEN 0
    ELSE IF a[i] < b[i] THEN -1
    ELSE IF a[i] > b[i] THEN 1
    ELSE BigCmpFrom(a, b, i - 1)

\* -1, 0 or 1 as a < b, a = b or a > b
BigCmp(a, b) ==
    IF Len(a) < Len(b) THEN -1
    ELSE IF Len(a) > Len(b) THEN 1
    ELSE BigCmpFrom(a, b, Len(a))

BigIsOdd(a) == a # <<>> /\ a[1] % 2 = 1

RECURSIVE BigDivSmallRaw(_, _)
BigDivSmallRaw(a, k) ==
    IF a = <<>> THEN [q |-> <<>>, r |-> 0]
    ELSE LET hi == BigDivSmallRaw(Tail(a), k)
             v == hi.r * Base + a[1]
         IN [q |-> <<v \div k>> \o hi.q, r |-> v % k]

\* quotient and remainder of a by k, 0 < k < Base
BigDivSmall(a, k) ==
    LET d == BigDivSmallRaw(a, k) IN [q |-> BigNorm(d.q), r |-> d.r]

\* 2^n
Pow2(n) ==
    [j \in 1..(n \div BaseBits) + 1 |->
        IF j = (n \div BaseBits) + 1 THEN 2^(n % BaseBits) ELSE 0]

\* a mantissa that reached 2^53 by rounding is 2^52 with the next exponent
DoubleNorm(x) ==
    IF BigCmp(x.m, Pow2(53)) = 0 THEN [m |-> Pow2(52), e |-> x.e + 1] ELSE x

\* n * 2^s
ShiftLeft(n, s) ==
    IF n = <<>> THEN n
    ELSE [j \in 1..(s \div BaseBits) |-> 0] \o BigMulSmall(n, 2^(s % BaseBits))

\* the least s with n * 2^s >= bound, and n * 2^s, for n > 0
ScaleUp(n, bound) ==
    LET s == CHOOSE t \in 0..(5 * BaseBits) :
                 /\ BigCmp(ShiftLeft(n, t), bound) >= 0
                 /\ t > 0 => BigCmp(ShiftLeft(n, t - 1), bound) < 0
    IN [n |-> ShiftLeft(n, s), s |-> s]

\* the double nearest to hundredths / 100 (ties to even), hundredths > 0: what
\* JSON.parse, parseFloat and the Float column give for a price written with
\* two decimals
DoubleOfHundredths(hundredths) ==
    LET sc == ScaleUp(BigOfInt(hundredths), BigMulSmall(Pow2(52), 100))
        d  == BigDivSmall(sc.n, 100)
        up == 2 * d.r > 100 \/ (2 * d.r = 100 /\ BigIsOdd(d.q))
    IN DoubleNorm([m |-> IF up THEN BigAdd(d.q, <<1>>) ELSE d.q, e |-> -sc.s])

\* the digit g < Base with g * d <= r < (g + 1) * d: its high half, then its low
\* half
QuotientDigit(r, d) ==
    LET half == 2^(BaseBits \div 2)
        hi == CHOOSE h \in 0..(half - 1) :
                  /\ BigCmp(BigMulSmall(d, half * h), r) <= 0
                  /\ BigCmp(BigMulSmall(d, half * (h + 1)), r) > 0
        lo == CHOOSE l \in 0..(half - 1) :
                  /\ BigCmp(BigMulSmall(d, half * hi + l), r) <= 0
                  /\ BigCmp(BigMulSmall(d, half * hi + l + 1), r) > 0
    IN half * hi + lo

RECURSIVE LongDivision(_, _, _, _)
\* k more quotient digits of r / d by long division, for r < d
LongDivision(r, d, k, q) ==
    IF k = 0 THEN [q |-> q, r |-> r]
    ELSE LET r2 == IF r = <<>> THEN r ELSE <<0>> \o r
             g  == QuotientDigit(r2, d)
         IN LongDivision(BigSub(r2, BigMulSmall(d, g)), d, k - 1, <<g>> \o q)

\* x / y on doubles: the quotient of the mantissas to 4 digits (56 bits) after
\* the point, cut to 53 bits and rounded to nearest, ties to even
DoubleDiv(x, y) ==
    LET ge   == BigCmp(x.m, y.m) >= 0
        d    == LongDivision(IF ge THEN BigSub(x.m, y.m) ELSE x.m, y.m, 4,
                             IF ge THEN <<1>> ELSE <<>>)
        drop == IF ge THEN 4 ELSE 3
        cut  == BigDivSmall(d.q, 2^drop)
        half == 2^(drop - 1)
        up   == \/ cut.r > half
                \/ cut.r = half /\ d.r # <<>>
                \/ cut.r = half /\ d.r = <<>> /\ BigIsOdd(cut.q)
    IN DoubleNorm([m |-> IF up THEN BigAdd(cut.q, <<1>>) ELSE cut.q,
                   e |-> x.e - y.e - 4 * BaseBits + drop])

\* x > n for a positive double x and a small natural n
DoubleGreater(x, n) ==
    x.e >= 0 \/ BigCmp(x.m, BigMulSmall(Pow2(-x.e), n)) > 0

\* x < y for positive doubles
DoubleLess(x, y) ==
    x.e < y.e \/ (x.e = y.e /\ BigCmp(x.m, y.m) < 0)

\* priceMonthly of a pricing point without monthly price
NoPrice == -1

\* the double 0
DoubleZero == [m |-> <<>>, e |-> 0]

\* the monthly prices pricing points carry, in hundredths: none, 0, 50, 150,
\* 200, 99.99 and 299.97
PriceLiterals == {NoPrice, 0, 5000, 15000, 20000, 9999, 29997}

\* the PricingPoint row of a price literal
PricingPoint(literal) ==
    [literal |-> literal,
     isNumber |-> literal # NoPrice,
     priceMonthly |-> IF literal = NoPrice \/ literal = 0 THEN DoubleZero
                      ELSE DoubleOfHundredths(literal)]

\* allPricing.map(p => p.priceMonthly).filter(typeof p === 'number' && p > 0)
monthlyPrices ==
    LET kept == SelectSeq(allPricing,
                          LAMBDA p : p.isNumber /\ p.priceMonthly # DoubleZero)
    IN [j \in 1..Len(kept) |-> kept[j].priceMonthly]

RECURSIVE MinOf(_)
\* Math.min(...prices)
MinOf(prices) ==
    IF Len(prices) = 1 THEN prices[1]
    ELSE LET rest == MinOf(Tail(prices))
         IN IF DoubleLess(rest, prices[1]) THEN rest ELSE prices[1]

RECURSIVE MaxOf(_)
\* Math.max(...prices)
MaxOf(prices) ==
    IF Len(prices) = 1 THEN prices[1]
    ELSE LET rest == MaxOf(Tail(prices))
         IN IF DoubleLess(prices[1], rest) THEN rest ELSE prices[1]

\* maxPrice / minPrice > 3
WideRange(minPrice, maxPrice) == DoubleGreater(DoubleDiv(maxPrice, minPrice), 3)

\* confidence of the pricing INSIGHT, in tenths
PricingConfidence == 8

\* the findings the `// Pricing insights` block pushes
PricingInsights ==
    IF Len(allPricing) > 0 /\ Len(monthlyPrices) > 0
          /\ WideRange(MinOf(monthlyPrices), MaxOf(monthlyPrices))
    THEN << [kind |-> "INSIGHT", confidence |-> PricingConfidence] >>
    ELSE <<>>

\* a pricing point is persisted by the extraction stage
WritePricingPoint(price) ==
    /\ UNCHANGED p_others
    /\ p_pc = "extraction"
    /\ Len(allPricing) < MaxPricing
    /\ allPricing' = Append(allPricing, PricingPoint(price))
    /\ UNCHANGED <<pricingFindings, p_pc>>

\* synthesis reads the pricing points and runs the pricing block
SynthesizePricing ==
    /\ UNCHANGED p_others
    /\ p_pc = "extraction"
    /\ pricingFindings' = PricingInsights
    /\ p_pc' = "synthesized"
    /\ UNCHANGED allPricing

p_Next ==
    \/ \E price \in PriceLiterals : WritePricingPoint(price)
    \/ SynthesizePricing

InitPricing == p_Idle /\ o_Idle /\ s_Idle /\ f_Idle /\ x_Idle /\ d_Idle /\ r_Idle /\ c_Idle

SpecPricing == InitPricing /\ [][p_Next]_vars

-----------------------------------------------------------------------------
(* Capability extraction: src/lib/extract/capabilities.ts *)

RECURSIVE Split(_)
\* String.prototype.split(' ')
Split(str) ==
    IF \E j \in 1..Len(str) : str[j] = " "
    THEN LET k == CHOOSE j \in 1..Len(str) :
                    str[j] = " " /\ \A m \in 1..(j - 1) : str[m] # " "
         IN <<SubSeq(str, 1, k - 1)>> \o Split(SubSeq(str, k + 1, Len(str)))
    ELSE <<str>>

RECURSIVE Join(_)
\* Array.prototype.join(' ')
Join(parts) ==
    IF Len(parts) = 0 THEN <<>>
    ELSE IF Len(parts) = 1 THEN parts[1]
    ELSE parts[1] \o <<" ">> \o Join(Tail(parts))

\* String.prototype.endsWith
EndsWith(str, suffix) ==
    /\ Len(str) >= Len(suffix)
    /\ SubSeq(str, Len(str) - Len(suffix) + 1, Len(str)) = suffix

\* str.slice(0, -k)
DropLast(str, k) == SubSeq(str, 1, Len(str) - k)

SINGULAR_EXCEPTIONS == { <<"a", "n", "a", "l", "y", "t", "i", "c", "s">>, <<"n", "e", "w", "s">>, <<"a", "c", "c", "e", "s", "s">> }
STOP_WORDS == { <<"a", "n", "d">>, <<"o", "r">>, <<"t", "h", "e">>, <<"a">>, <<"a", "n">>, <<"&">>, <<"w", "i", "t", "h">>, <<"f", "o", "r">> }

singularize(token) ==
    IF Len(token) <= 3 \/ token \in SINGULAR_EXCEPTIONS THEN token
    ELSE IF EndsWith(token, <<"i", "e", "s">>) THEN DropLast(token, 3) \o <<"y">>
    ELSE IF \/ EndsWith(token, <<"x", "e", "s">>) \/ EndsWith(token, <<"s", "e", "s">>)
            \/ EndsWith(token, <<"c", "h", "e", "s">>) \/ EndsWith(token, <<"s", "h", "e", "s">>)
         THEN DropLast(token, 2)
    ELSE IF EndsWith(token, <<"s">>) /\ ~EndsWith(token, <<"s", "s">>)
         THEN DropLast(token, 1)
    ELSE token

normalizeCapabilityTerm(term) ==
    LET base == normalizeFeature(term) IN
    IF Len(base) = 0 THEN <<>>
    ELSE LET kept == SelectSeq(Split(base),
                               LAMBDA t : Len(t) > 0 /\ t \notin STOP_WORDS)
         IN Join([j \in 1..Len(kept) |-> singularize(kept[j])])

\* two of the groups of RAW_SYNONYM_GROUPS, each with its first variants
RAW_SYNONYM_GROUPS ==
    << [display  |-> <<"S", "i", "n", "g", "l", "e", " ", "S", "i", "g", "n", " ", "O", "n">>,
        variants |-> << <<"S", "i", "n", "g", "l", "e", " ", "S", "i", "g", "n", " ", "O", "n">>,
                        <<"S", "i", "n", "g", "l", "e", " ", "S", "i", "g", "n", "-", "O", "n">>,
                        <<"S", "S", "O">> >>],
       [display  |-> <<"A", "u", "d", "i", "t", " ", "L", "o", "g", "s">>,
        variants |-> << <<"A", "u", "d", "i", "t", " ", "L", "o", "g", "s">>,
                        <<"A", "u", "d", "i", "t", " ", "L", "o", "g">> >>] >>

\* CAPABILITY_SYNONYM_MAP.get(norm): the groups are entered in order and a later
\* map.set of the same key replaces the earlier one; NoCanonical when absent
NoCanonical == [normalized |-> <<>>, display |-> <<>>]
SynonymKeys(g) ==
    {normalizeCapabilityTerm(g.display)}
        \cup {normalizeCapabilityTerm(g.variants[j]) : j \in 1..Len(g.variants)}
CAPABILITY_SYNONYM_MAP(norm) ==
    LET hits == {j \in 1..Len(RAW_SYNONYM_GROUPS) :
                    /\ Len(normalizeCapabilityTerm(RAW_SYNONYM_GROUPS[j].display)) > 0
                    /\ norm \in SynonymKeys(RAW_SYNONYM_GROUPS[j]) \ {<<>>}}
    IN IF hits = {} THEN NoCanonical
       ELSE LET g == RAW_SYNONYM_GROUPS[CHOOSE j \in hits : \A k \in hits : k <= j]
            IN [normalized |-> normalizeCapabilityTerm(g.display),
                display |-> g.display]

\* String.prototype.toUpperCase
UpperCase(str) == [j \in 1..Len(str) |-> ToUpper(str[j])]

canonicalizeCapability(norm, mention) ==
    IF CAPABILITY_SYNONYM_MAP(norm) # NoCanonical THEN CAPABILITY_SYNONYM_MAP(norm)
    ELSE IF Len(norm) = 0 THEN [normalized |-> norm, display |-> mention]
    ELSE IF /\ ~\E j \in 1..Len(norm) : norm[j] = " "
            /\ Len(mention) > 0 /\ Len(mention) <= 6 /\ mention = UpperCase(mention)
         THEN [normalized |-> norm, display |-> mention]
    ELSE IF (~\E j \in 1..Len(norm) : norm[j] = " ") /\ Len(norm) <= 5
         THEN [normalized |-> norm, display |-> UpperCase(norm)]
    ELSE [normalized |-> norm,
          display |-> IF Len(canonicalFeatureName(norm)) > 0
                      THEN canonicalFeatureName(norm) ELSE mention]

\* the hit extractCapabilities makes of one regex mention: name and normalized
\* (no hit when norm.length < 2: the empty set)
CapabilityHit(mention) ==
    LET norm == normalizeCapabilityTerm(Trim(mention)) IN
    IF Len(norm) < 2 THEN {}
    ELSE LET canonical == canonicalizeCapability(norm, Trim(mention)) IN
         {[name |-> canonical.display, normalized |-> canonical.normalized]}

-----------------------------------------------------------------------------
(* orchestrateRun, extraction: the feature candidates, their dedup and the rows
   handed to the persistence transaction *)

CompetitorIds == {"c1", "c2"}
\* compId = null
NoCompetitor == "null"

\* normalizedName of the capabilities the AI path returns: "Audit Logs", "SSO"
AICapabilityNames == { <<"A", "u", "d", "i", "t", " ", "L", "o", "g", "s">>, <<"S", "S", "O">> }
\* mentions the regex path matches: "audit logs", "SSO", "baa"
RegexMentions == { <<"a", "u", "d", "i", "t", " ", "l", "o", "g", "s">>, <<"S", "S", "O">>, <<"b", "a", "a">> }

\* featureCandidates.push of the AI path: the branch is taken only with a compId
PushAICandidate(name, compId) ==
    /\ UNCHANGED x_others
    /\ featureTx = "pending"
    /\ Len(featureCandidates) < MaxCandidates
    /\ featureCandidates' = Append(featureCandidates,
           [name |-> name, normalized |-> normalizeFeature(name),
            competitorId |-> compId])
    /\ UNCHANGED <<featureRows, featureTx>>

\* featureCandidates.push of the regex path for one hit of extractCapabilities
PushRegexCandidate(mention, compId) ==
    /\ UNCHANGED x_others
    /\ featureTx = "pending"
    /\ Len(featureCandidates) < MaxCandidates
    /\ \E c \in CapabilityHit(mention) :
          featureCandidates' = Append(featureCandidates,
             [name |-> c.name, normalized |-> c.normalized, competitorId |-> compId])
    /\ UNCHANGED <<featureRows, featureTx>>

\* `${candidate.competitorId ?? 'global'}|${candidate.normalized}`
FeatureKey(candidate) == <<candidate.competitorId, candidate.normalized>>

\* featureByKey filled with `if (!featureByKey.has(key))`, then its values in
\* insertion order (each with its index among the candidates)
FeatureCreates(cands) ==
    SelectSeq([j \in 1..Len(cands) |-> [c |-> cands[j], j |-> j]],
              LAMBDA e : ~\E k \in 1..(e.j - 1) :
                            FeatureKey(cands[k]) = FeatureKey(e.c))

\* featureCreatesWithDefs: normalized is computed again, from the name
FeatureCreatesWithDefs(cands) ==
    LET creates == FeatureCreates(cands) IN
    [j \in 1..Len(creates) |->
        [name |-> creates[j].c.name,
         normalized |-> normalizeFeature(creates[j].c.name),
         competitorId |-> creates[j].c.competitorId,
         candidate |-> creates[j].j]]

\* CREATE UNIQUE INDEX "Feature_runId_competitorId_normalized_key": two rows of
\* the run with the same competitorId (not null) and the same normalized
FeatureUniqueViolation(rws) ==
    \E i, j \in 1..Len(rws) :
        /\ i < j
        /\ rws[i].competitorId # NoCompetitor
        /\ rws[i].competitorId = rws[j].competitorId
        /\ rws[i].normalized = rws[j].normalized

\* dedup, ensureFeatureDefinitions, featureCreatesWithDefs, prisma.$transaction
PersistFeatures ==
    /\ UNCHANGED x_others
    /\ featureTx = "pending"
    /\ UNCHANGED featureCandidates
    /\ \/ /\ Len(featureCandidates) > 0
          /\ featureTx' = "ensureFeatureDefinitions failed"
          /\ UNCHANGED featureRows
       \/ /\ featureRows' = FeatureCreatesWithDefs(featureCandidates)
          /\ featureTx' = IF FeatureUniqueViolation(featureRows')
                          THEN "rejected" ELSE "committed"

x_Next ==
    \/ \E name \in AICapabilityNames, compId \in CompetitorIds :
          PushAICandidate(name, compId)
    \/ \E mention \in RegexMentions, compId \in CompetitorIds \cup {NoCompetitor} :
          PushRegexCandidate(mention, compId)
    \/ PersistFeatures

InitFeatures == x_Idle /\ o_Idle /\ s_Idle /\ f_Idle /\ d_Idle /\ p_Idle /\ r_Idle /\ c_Idle

SpecFeatures == InitFeatures /\ [][x_Next]_vars

-----------------------------------------------------------------------------
(* Feature Definition Registry: src/unnamed/part_007 *)

\* the names callers pass: "SSO", "sso", "Sso", "A-b"
RawNames == { <<"S", "S", "O">>, <<"s", "s", "o">>, <<"S", "s", "o">>,
              <<"A", "-", "b">> }

Callers == 1..2

NameLists == UNION {[1..n -> RawNames] : n \in 1..MaxNames}

\* names.map(trim).filter(Boolean), then the normalizedEntries
NormalizedEntries(names) ==
    LET cleaned == SelectSeq([j \in 1..Len(names) |-> Trim(names[j])],
                             LAMBDA n : Len(n) > 0)
    IN [j \in 1..Len(cleaned) |->
          [original   |-> cleaned[j],
           normalized |-> normalizeFeature(cleaned[j]),
           canonical  |-> canonicalFeatureName(cleaned[j])]]

UniqueViolationNever(D, n) == FALSE

\* CREATE UNIQUE INDEX "FeatureDefinition_normalized_key": an insert of a key the
\* table holds is rejected
UniqueViolation(D, n) == \E d \in D : d.normalized = n

\* the call up to its first await: `if (cleaned.length === 0) return []`, else
\* normalizedEntries is built and findMany is awaited
EnterCall(names) ==
    LET entries == NormalizedEntries(names) IN
    IF Len(entries) = 0
    THEN [pc |-> "done", result |-> {}]
    ELSE [pc |-> "find", entries |-> entries]

\* ensureFeatureDefinitions(names) is called: cleaned, normalizedEntries
CallEnsure(p, names) ==
    /\ UNCHANGED f_others
    /\ f_proc[p].pc = "idle"
    /\ f_proc' = [f_proc EXCEPT ![p] = EnterCall(names)]
    /\ UNCHANGED <<defs, nextDefId, f_call>>

\* featureDefinition.findMany({ where: { normalized: { in: normalizedSet } } })
FindExisting(p) ==
    /\ UNCHANGED f_others
    /\ f_proc[p].pc = "find"
    /\ LET keys == {f_proc[p].entries[j].normalized : j \in 1..Len(f_proc[p].entries)}
           existing == {d \in defs : d.normalized \in keys}
       IN f_proc' = [f_proc EXCEPT ![p] =
                       [pc |-> "create", entries |-> f_proc[p].entries,
                        byNormalized |-> existing]]
    /\ UNCHANGED <<defs, nextDefId, f_call>>

\* the entries of the create loop that byNormalized does not hold yet
Missing(pr) ==
    {j \in 1..Len(pr.entries) :
        ~\E d \in pr.byNormalized : d.normalized = pr.entries[j].normalized}

\* the data of featureDefinition.create for one entry
NewDefinition(entry, id) ==
    [id |-> id,
     name |-> IF Len(entry.canonical) > 0 THEN entry.canonical ELSE entry.original,
     normalized |-> entry.normalized,
     aliases |-> IF Len(entry.canonical) > 0 /\ entry.canonical # entry.original
                 THEN {entry.original} ELSE {}]

\* nextAliases of the second loop for one entry and the definition byNormalized
\* holds for its key
NextAliases(entry, def) ==
    LET canonical == IF Len(entry.canonical) > 0
                     THEN entry.canonical ELSE entry.original
        a1 == IF def.name # canonical THEN def.aliases \cup {canonical}
              ELSE def.aliases
    IN IF Len(entry.original) > 0 /\ entry.original # canonical
       THEN a1 \cup {entry.original} ELSE a1

\* Map.prototype.set: a new key goes last, a present key keeps its place and
\* takes the new value
MapSet(m, id, aliases) ==
    IF \E j \in 1..Len(m) : m[j].id = id
    THEN [j \in 1..Len(m) |-> IF m[j].id = id THEN [id |-> id, aliases |-> aliases]
                                ELSE m[j]]
    ELSE Append(m, [id |-> id, aliases |-> aliases])

RECURSIVE AliasUpdatesFrom(_, _, _)
\* the aliasUpdates map built by the second loop from entry j on, as the
\* sequence of its [id, aliases] in insertion order
AliasUpdatesFrom(pr, j, m) ==
    IF j > Len(pr.entries) THEN m
    ELSE LET def  == CHOOSE d \in pr.byNormalized :
                        d.normalized = pr.entries[j].normalized
             next == NextAliases(pr.entries[j], def)
         IN AliasUpdatesFrom(pr, j + 1,
                IF next # def.aliases THEN MapSet(m, def.id, next) ELSE m)

AliasUpdates(pr) == AliasUpdatesFrom(pr, 1, <<>>)

\* one featureDefinition.create of the first loop; when no entry is left to
\* create, the second loop builds aliasUpdates
CreateDefinition(p) ==
    /\ UNCHANGED f_others
    /\ UNCHANGED f_call
    /\ f_proc[p].pc = "create"
    /\ LET pr == f_proc[p] IN
       IF Missing(pr) = {}
       THEN /\ f_proc' = [f_proc EXCEPT ![p] =
                            [pc |-> "update", byNormalized |-> pr.byNormalized,
                             updates |-> AliasUpdates(pr)]]
            /\ UNCHANGED <<defs, nextDefId>>
       ELSE LET j == CHOOSE k \in Missing(pr) : \A m \in Missing(pr) : k <= m
                entry == pr.entries[j]
            IN IF UniqueViolation(defs, entry.normalized)
               THEN /\ f_proc' = [f_proc EXCEPT ![p] =
                                    [pc |-> "raised", key |-> entry.normalized]]
                    /\ UNCHANGED <<defs, nextDefId>>
               ELSE LET created == NewDefinition(entry, nextDefId) IN
                    /\ defs' = defs \cup {created}
                    /\ nextDefId' = nextDefId + 1
                    /\ f_proc' = [f_proc EXCEPT ![p].byNormalized = @ \cup {created}]

\* one featureDefinition.update({ where: { id }, data: { aliases: { set } } });
\* when none is left, the call returns Array.from(byNormalized.values())
UpdateAliases(p) ==
    /\ UNCHANGED f_others
    /\ f_proc[p].pc = "update"
    /\ UNCHANGED <<nextDefId, f_call>>
    /\ LET pr == f_proc[p] IN
       IF Len(pr.updates) = 0
       THEN /\ f_proc' = [f_proc EXCEPT ![p] =
                            [pc |-> "done", result |-> pr.byNormalized]]
            /\ UNCHANGED defs
       ELSE LET u == Head(pr.updates) IN
            /\ defs' = {IF d.id = u.id THEN [d EXCEPT !.aliases = u.aliases] ELSE d :
                          d \in defs}
            /\ f_proc' = [f_proc EXCEPT ![p].updates = Tail(@)]

f_Next ==
    \/ \E p \in Callers : \E names \in NameLists : CallEnsure(p, names)
    \/ \E p \in Callers : FindExisting(p)
    \/ \E p \in Callers : CreateDefinition(p)
    \/ \E p \in Callers : UpdateAliases(p)

InitFeat == f_Idle /\ o_Idle /\ s_Idle /\ x_Idle /\ d_Idle /\ p_Idle /\ r_Idle /\ c_Idle

SpecFeat == InitFeat /\ [][f_Next]_vars

-----------------------------------------------------------------------------
(* One caller calling ensureFeatureDefinitions again and again, each call after
   the one before has returned *)

NameSSO          == <<"S", "S", "O">>
NameSingleSignOn == <<"S", "i", "n", "g", "l", "e", " ", "S", "i", "g", "n", "-", "O", "n">>

\* the names this caller passes: "SSO", "sso", "Sso", "Single Sign-On"
SeqNames == { NameSSO, <<"s", "s", "o">>, <<"S", "s", "o">>, NameSingleSignOn }

SeqNameLists == UNION {[1..n -> SeqNames] : n \in 1..MaxNames}

\* the caller (caller 1) calls ensureFeatureDefinitions(names)
CallInSequence(names) ==
    /\ UNCHANGED f_others
    /\ f_proc[1].pc \in {"idle", "done"}
    /\ f_call.n < MaxCalls
    /\ f_call' = [n |-> f_call.n + 1, names |-> names, before |-> defs,
                  same |-> f_call.n > 0 /\ names = f_call.names]
    /\ f_proc' = [f_proc EXCEPT ![1] = EnterCall(names)]
    /\ UNCHANGED <<defs, nextDefId>>

e_Next ==
    \/ \E names \in SeqNameLists : CallInSequence(names)
    \/ FindExisting(1)
    \/ CreateDefinition(1)
    \/ UpdateAliases(1)

InitEnsure == f_Idle /\ o_Idle /\ s_Idle /\ x_Idle /\ d_Idle /\ p_Idle /\ r_Idle /\ c_Idle

SpecEnsure == InitEnsure /\ [][e_Next]_vars

-----------------------------------------------------------------------------
(* Claims about the Task Scheduler, checked under SpecSched *)

\* the ids that left the queue because a poll selected them as ready: cancel is
\* the only other way out of the queue
Selected == (1..(nextId - 1)) \ (Queued \cup cancelled)

\* C5: at-most-once dispatch: every task id is passed to executeTask at most
\* once, and a task selected as ready is out of the queue in the state that
\* selects it.
C5_AtMostOnceDispatch ==
    /\ \A id \in 1..MaxTasks : dispatched[id] <= 1
    /\ (Executing \cup Waiting \cup finished) \cap Queued = {}
    /\ Executing \cap Waiting = {}
    /\ Executing \cap finished = {}

\* two process loops are executing batches after a stop and a restart, and a
\* task dispatched earlier has finished
C5_Witness ==
    /\ \E id \in finished : dispatched[id] = 1
    /\ \E l1, l2 \in Live :
          /\ l1 # l2
          /\ l1.pc = "batch" /\ l1.batch # {}
          /\ l2.pc = "batch" /\ l2.batch # {}
    /\ \A id \in Executing : dispatched[id] = 1

\* C6: at every moment at most 3 task handlers started by the scheduler are
\* executing.
C6_AtMostThreeExecuting ==
    Cardinality(Executing) <= Concurrency

\* C7: failure containment: a handler that raises takes no other selected task
\* with it (every selected task is waiting for its batch, executing or
\* settled), and while the scheduler is running a process loop is alive.
C7_FailureContained ==
    /\ Selected \subseteq (Waiting \cup Executing \cup finished)
    /\ \A lp \in Live : lp.raised => lp.pc = "batch" /\ lp.batch # {}
    /\ isRunning => Live # {}

\* a handler of the first batch raised, its siblings settled, and the loop is
\* executing the second batch of the same pass
C7_Witness ==
    \E lp \in Live :
        /\ lp.pc = "batch"
        /\ lp.i = Concurrency
        /\ lp.raised
        /\ Range(Take(lp.readyTasks, Concurrency)) \subseteq finished
        /\ lp.batch = {lp.readyTasks[Concurrency + 1]}

\* C8: cancel(id) of a queued task removes exactly that task, returns true, and
\* the task is never executed afterwards; cancel(id) of an unknown or executed
\* id returns false and changes nothing.
C8_Cancel ==
    /\ \A id \in 0..MaxTasks :
          LET r == cancel(tasks, id) IN
          IF id \in Queued
          THEN /\ r.result
               /\ r.tasks = SelectSeq(tasks, LAMBDA t : t.id # id)
               /\ Len(r.tasks) = Len(tasks) - 1
          ELSE /\ ~r.result
               /\ r.tasks = tasks
    /\ \A id \in cancelled :
          /\ dispatched[id] = 0
          /\ id \notin Queued \cup Waiting \cup Executing \cup finished

\* a task was cancelled, every other task has been executed, the clock is past
\* every scheduled time and the loop polled an empty queue; cancel of an
\* executed id returns false
C8_Witness ==
    /\ cancelled # {}
    /\ finished # {}
    /\ cancelled \cup finished = 1..(nextId - 1)
    /\ now = MaxTime
    /\ BagIn(Sleeping, loops)
    /\ \E id \in finished : ~cancel(tasks, id).result

-----------------------------------------------------------------------------
(* Claims about the Feature Definition Registry, checked under SpecFeat *)

\* C9: in every reachable state, whatever the interleaving of concurrent
\* ensureFeatureDefinitions calls, no two FeatureDefinition records have the
\* same normalized key.
C9_UniqueNormalized ==
    \A d1 \in defs : \A d2 \in defs : d1.normalized = d2.normalized => d1.id = d2.id

C9_Witness ==
    /\ \E p \in Callers :
          /\ f_proc[p].pc = "raised"
          /\ \E d \in defs : d.normalized = f_proc[p].key
    /\ Cardinality(defs) >= 2

\* C10: concurrent ensureFeatureDefinitions calls that share a key with no
\* definition yet both complete without raising.
C10_NoCallerRaises ==
    \A p \in Callers : f_proc[p].pc # "raised"

\* C18: a FeatureDefinition record is never deleted, and every write of
\* ensureFeatureDefinitions, also of interleaved concurrent calls on the same
\* definition, leaves its alias set a superset of the set stored just before.
C18_AppendOnly ==
    [][\A d \in defs : \E d2 \in defs' : d2.id = d.id /\ d.aliases \subseteq d2.aliases]_vars
-----------------------------------------------------------------------------
(* Claims about ensureFeatureDefinitions called in sequence, checked under
   SpecEnsure *)

\* the definition stored for the normalized key of a name
StoredFor(name) == {d \in defs : d.normalized = normalizeFeature(Trim(name))}

\* C11: ensureFeatureDefinitions(["SSO", "Single Sign-On"]) on an empty catalog
\* returns exactly one FeatureDefinition, whose aliases contain both original
\* strings.
C11_SsoOneDefinition ==
    (/\ f_call.n = 1
     /\ f_call.names = <<NameSSO, NameSingleSignOn>>
     /\ f_proc[1].pc = "done")
        => /\ Cardinality(f_proc[1].result) = 1
           /\ \A d \in f_proc[1].result :
                 \A s \in StoredFor(d.name) :
                    {NameSSO, NameSingleSignOn} \subseteq s.aliases
-----------------------------------------------------------------------------
(* Claims about the feature rows of a run, checked under SpecFeatures *)

\* C12: the Feature rows handed to the persistence transaction hold at most one
\* row per (competitorId-or-null, normalized as stored on the row), the row of
\* the first candidate with that pair, and the insert does not violate the
\* unique index on (runId, competitorId, normalized).
C12_FeatureFirstWins ==
    featureTx \in {"committed", "rejected"}
        => /\ \A i, j \in 1..Len(featureRows) :
                 (/\ featureRows[i].competitorId = featureRows[j].competitorId
                  /\ featureRows[i].normalized = featureRows[j].normalized) => i = j
           /\ \A i \in 1..Len(featureRows) :
                 ~\E k \in 1..(featureRows[i].candidate - 1) :
                     /\ featureCandidates[k].competitorId = featureRows[i].competitorId
                     /\ normalizeFeature(featureCandidates[k].name)
                           = featureRows[i].normalized
           /\ featureTx = "committed"
-----------------------------------------------------------------------------
(* Claims about discovery, checked under SpecDiscovery *)

\* the results of a list that have a url and whose normalized url is not in sn
Unseen(results, sn) ==
    SelectSeq(results, LAMBDA u : normalizeUrl(u) # NoUrl /\ normalizeUrl(u) \notin sn)

\* a query whose results all score 0 against a non-empty relevance-token set
\* has been selected from
AllScoreZero ==
    /\ d_pc = "selected"
    /\ relevanceTokens = "nonempty"
    /\ \A j \in 1..Len(d_q.results) : Score(d_q.results[j]) = 0

\* C13 as stated: when every result of a query scores 0 against a non-empty
\* relevance-token set, the results selected are the first 3 raw results, and
\* none is selected only if the raw result list is empty.
C13_FallbackFirstThreeRaw ==
    AllScoreZero
        => /\ d_q.selectedResults = Take(d_q.results, 3)
           /\ d_q.selectedResults = <<>> => d_q.results = <<>>

\* C13 amended: when every result of a query scores 0 against a non-empty
\* relevance-token set, the results selected are the first 3 of the results
\* that have a valid url not seen by an earlier query, and none is selected
\* only if there is no such result.
C13_FallbackFirstThreeUnseen ==
    AllScoreZero
        => /\ d_q.selectedResults = Take(Unseen(d_q.results, d_q.seenAtStart), 3)
           /\ d_q.selectedResults = <<>>
                 => Unseen(d_q.results, d_q.seenAtStart) = <<>>

\* a fallback of more than 3 results, with a result seen by an earlier query
\* ahead of them, has been cut to its first 3
C13_Witness ==
    /\ AllScoreZero
    /\ Len(d_q.fallback) > 3
    /\ Len(d_q.selectedResults) = 3
    /\ d_q.seenAtStart # {}

\* C15: no two persisted Source rows of the run have the same normalized url,
\* whatever the queries returned (results repeated inside a query or across
\* queries, urls that differ only by their fragment).
C15_SourceUrlUnique ==
    \A i, j \in 1..Len(sourceRows) :
        i # j => normalizeUrl(sourceRows[i]) # normalizeUrl(sourceRows[j])

\* rows persisted after a second query whose results repeat a page, once with
\* a fragment, and repeat a page an earlier query had found
C15_Witness ==
    /\ d_pc = "persisted"
    /\ Len(sourceRows) >= 2
    /\ d_q.seenAtStart # {}
    /\ \E i, j \in 1..Len(d_q.results) :
          /\ i # j
          /\ d_q.results[i] # d_q.results[j]
          /\ normalizeUrl(d_q.results[i]) = normalizeUrl(d_q.results[j])
          /\ normalizeUrl(d_q.results[i]) # NoUrl
    /\ \E i \in 1..Len(d_q.results) : normalizeUrl(d_q.results[i]) \in d_q.seenAtStart
-----------------------------------------------------------------------------
(* Claims about the extraction paths, checked under SpecOrch *)

\* C14: when no AI provider is configured, orchestrateRun makes no call to the
\* AI collaborator, and every source the extraction loop has processed went
\* through the regex path.
C14_NoProviderNoAICalls ==
    ~o_cfg.ai
        => /\ calls.ai = 0
           /\ extracted.ai = 0
           /\ extracted.regex = extracted.n
           /\ o_pc = "extract" => extracted.n = o_i

\* a run without provider returned after its extraction loop processed more
\* than one fetched source and its synthesis stage was passed
C14_Witness ==
    /\ ~o_cfg.ai
    /\ o_pc = "returned"
    /\ runRow.exists /\ runRow.status = "COMPLETE"
    /\ fetched > 1
    /\ extracted.regex = fetched

\* C20: every fetched source the extraction loop has processed either had its
\* AI attempt complete or was run through the regex path.
C20_RegexFallback ==
    extracted.ai + extracted.regex = extracted.n
-----------------------------------------------------------------------------
(* Claims about the pricing insight, checked under SpecPricing *)

\* the positive monthly prices of the run, in hundredths
PositivePrices == {allPricing[j].literal : j \in 1..Len(allPricing)} \ {NoPrice, 0}

\* C16: synthesis emits exactly one pricing INSIGHT, with confidence 0.8, when
\* over the pricing points with a positive monthly price max > 3 * min, and
\* none when max <= 3 * min or no pricing point has a positive monthly price.
C16_PricingSpread ==
    p_pc = "synthesized"
        => pricingFindings =
             IF \E lo, hi \in PositivePrices : hi > 3 * lo
             THEN << [kind |-> "INSIGHT", confidence |-> 8] >>
             ELSE <<>>
-----------------------------------------------------------------------------
(* More claims about ensureFeatureDefinitions called in sequence, checked under
   SpecEnsure *)

\* C17: when ensureFeatureDefinitions(names) has returned, the definition
\* stored for the normalized key of every input name holds that raw spelling
\* among its aliases whenever the spelling differs from the definition's name,
\* also when several names of the call share the key.
C17_AliasesAccumulate ==
    (f_call.n > 0 /\ f_proc[1].pc = "done")
        => LET entries == NormalizedEntries(f_call.names) IN
           \A j \in 1..Len(entries) :
              /\ \E d \in defs : d.normalized = entries[j].normalized
              /\ \A d \in defs :
                    (d.normalized = entries[j].normalized /\ entries[j].original # d.name)
                        => entries[j].original \in d.aliases

\* C19: a second call with the same list of names, with no other writer in
\* between, creates no definition, issues no alias update and leaves every
\* FeatureDefinition record as the first call left it.
C19_Idempotent ==
    f_call.same
        => /\ defs = f_call.before
           /\ f_proc[1].pc = "create" => Missing(f_proc[1]) = {}
           /\ f_proc[1].pc = "update" => f_proc[1].updates = <<>>
-----------------------------------------------------------------------------
(* Claims about the fetch loop and the steps after QA, checked under SpecOrch *)

\* C21: each Source of the run is fetched exactly once; a failed fetch marks
\* the Source ERROR, never takes the invocation to its fatal handler (which
\* would move the Run to ERROR), and the later Sources are still fetched.
C21_FailSoftFetch ==
    /\ o_pc = "fetch" => calls.fetch = o_i
    /\ calls.fetch <= Len(sources)
    /\ o_err # "source.update failed"

\* C23: a failure of change detection, of storing the diff, of alert
\* evaluation or of the completion notification never takes the invocation to
\* its fatal handler; once COMPLETE has been written no other status is written
\* and nothing is thrown.
C23_PostQANonFatal ==
    /\ o_err # "run.findFirst failed"
    /\ (\E k \in 1..Len(statusWrites) : statusWrites[k] = "COMPLETE")
          => /\ statusWrites[Len(statusWrites)] = "COMPLETE"
             /\ o_pc \in {"notify", "returned"}
             /\ o_thrown = "none"

(* Claims about the polling loop and the queue, checked under SpecSched *)
\* C27: after any sequence of schedule, start and stop calls at most one
\* invocation of process() is live.
C27_SingleLoop == BagCardinality(loops) <= 1

\* the ids schedule has returned whose handler has not begun and which no
\* cancel call has removed
NotBegun == {id \in 1..(nextId - 1) : id \notin cancelled /\ dispatched[id] = 0}

\* C29: for every id returned by schedule and not cancelled whose handler has
\* not begun, cancel(id) returns true.
C29_CancellableUntilStart ==
    \A id \in NotBegun : cancel(tasks, id).result = TRUE

Sorted(T) == \A j \in 1..(Len(T) - 1) : T[j].scheduledFor <= T[j + 1].scheduledFor

\* C25: after every step the task list is sorted by scheduledFor ascending,
\* getNextTaskTime returns the least scheduledFor of the list (null when it is
\* empty), and after schedule returns the scheduler is running with a live loop.
C25_QueueSorted ==
    [][/\ Sorted(tasks')
       /\ IF Len(tasks') = 0
          THEN getNextTaskTime(tasks') = NoTime
          ELSE /\ \E j \in 1..Len(tasks') : tasks'[j].scheduledFor = getNextTaskTime(tasks')
               /\ \A j \in 1..Len(tasks') : getNextTaskTime(tasks') <= tasks'[j].scheduledFor
       /\ (nextId' # nextId => isRunning' /\ loops' # EmptyBag)]_vars

\* a task scheduled later for an earlier time stands before the earlier-scheduled one
C25_Witness ==
    /\ Len(tasks) >= 2
    /\ tasks[1].id > tasks[2].id
    /\ tasks[1].scheduledFor < tasks[2].scheduledFor
    /\ getNextTaskTime(tasks) = tasks[1].scheduledFor
    /\ isRunning

(* Claims about the AUTO_RERUN handler, checked under SpecRerun *)
\* C22: every Run created by the AUTO_RERUN handler is created at least 7 days
\* after every Run of the same project created before it.
C22_MinimumSpacing ==
    \A k \in 1..Len(runs) : \A j \in 1..(k - 1) :
        (runs[k].by = "AUTO_RERUN" /\ runs[j].projectId = runs[k].projectId)
            => runs[k].createdAt - runs[j].createdAt >= SpacingDays

\* C26: the persisted status of every Run is one of NEW, DISCOVERING,
\* EXTRACTING, SYNTHESIZING, QA, COMPLETE, ERROR, SKIPPED.
C26_StatusDomain == \A k \in 1..Len(runs) : runs[k].status \in RunStatus

\* C28: the credits used never exceed the limit, and every Run the handler
\* created has had its one credit consumed once the handler that created it is
\* past its consume call.
C28_CreditBudget ==
    /\ credit.used <= credit.limit
    /\ \A k \in 1..Len(runs) :
          (/\ runs[k].by = "AUTO_RERUN"
           /\ ~\E h \in 1..Concurrency : handlers[h].pc = "consume" /\ handlers[h].run = k)
             => runs[k].charged

(* Claims about the capability findings, checked under SpecCaps *)
\* C30: no capability group of a run is reported both as a COMMON_FEATURE
\* finding and as a DIFFERENTIATOR finding.
C30_CommonAndRareDisjoint ==
    \A j, k \in 1..Len(capFindings) :
        (capFindings[j].kind = "COMMON_FEATURE" /\ capFindings[k].kind = "DIFFERENTIATOR")
            => capFindings[j].key # capFindings[k].key

(* Claims about the progress of the polling loop, checked under SpecSchedFair *)
\* task id was returned by schedule, is not cancelled, its scheduledFor has been
\* reached (it is in the queue and ready, or a poll has selected it), and the
\* scheduler is running
Due(id) ==
    /\ id \in 1..(nextId - 1)
    /\ id \notin cancelled
    /\ isRunning
    /\ dispatched[id] = 0
    /\ \/ id \in Waiting
       \/ \E j \in 1..Len(tasks) : tasks[j].id = id /\ tasks[j].scheduledFor <= now

\* C24: while the scheduler is running, every task that was scheduled, is not
\* cancelled and whose scheduledFor has been reached is eventually executed,
\* also when it was scheduled while a batch was executing.
C24_DueTasksExecute ==
    \A id \in 1..MaxTasks :
        Due(id) ~> (dispatched[id] > 0 \/ id \in cancelled \/ ~isRunning)

\* a task scheduled while a batch was executing has been executed
C24_Witness ==
    \E id \in 2..(nextId - 1) :
        /\ dispatched[id] > 0
        /\ isRunning
        /\ \E other \in 1..(id - 1) : dispatched[other] > 0 /\ other \in finished
        /\ id \in Executing
====
